---- MODULE Spec2Model ----
(***************************************************************************)
(* A model of the simulation driver of physics_studio                      *)
(* (core/run/simulator.py) with the event schedule, the force models, the  *)
(* integrator, the state hash and the trajectory store it uses.            *)
(*                                                                         *)
(* Numbers.  The program computes in float64.  The model computes on a     *)
(* fixed grid: a number x is held as the integer x*Scale, and every        *)
(* operation whose exact result may fall off the grid (a product, a        *)
(* quotient, a square root) is rounded to the nearest grid value, ties to  *)
(* even, the way IEEE-754 rounds to the nearest float.  Masses are > 0.    *)
(*                                                                         *)
(* Identifiers.  Body ids and event ids are strings ordered                *)
(* lexicographically in the program; the model holds each id as its rank   *)
(* (a natural number), so that sorted(ids) is ascending numeric order.     *)
(*                                                                         *)
(* Two calls.  A behaviour is two consecutive calls of run_simulation on   *)
(* the same SystemState and SimulationConfig: call 1 on the caller's       *)
(* event list, call 2 on a list derived from it as `variant' says.  The    *)
(* result of each call is kept in `results', so that claims about two runs *)
(* (determinism, events without effect) are claims about one behaviour.    *)
(*                                                                         *)
(* Render pipeline.  The module also models render/export.py (the stream   *)
(* of frames to the encoder process, specification SpecExport),            *)
(* CameraTrack.evaluate of scenario/models.py with the keyframe commands   *)
(* of authoring/commands.py (SpecCamera), and sample_trajectory and        *)
(* sample_index of render/sampling.py (SpecSampling, SpecIndex).  Each     *)
(* specification moves its own variables and leaves the others at rest.    *)
(* The interpolation arithmetic rounds every result to Precision           *)
(* significant bits, so that a + (b - a)*t is computed with the rounding   *)
(* steps of the program; Epsilon stands for the floor 1e-9 of a            *)
(* denominator.                                                            *)
(*                                                                         *)
(* Editor.  authoring/validation.py is the operator validate_scenario.     *)
(* The CommandManager of authoring/commands.py with its ten command types  *)
(* is specification SpecCommands: a scenario is a record of its bodies,    *)
(* events and keyframes, None is the empty tuple and an object x held in   *)
(* an optional field is <<x>>.  advance_playback_time of app/playback.py   *)
(* and the playback timer are SpecPlayback.  The window of app/main.py     *)
(* with its command manager and its simulation worker threads is           *)
(* SpecWindow: a slot of the window is one step, and a worker is a record  *)
(* of the scenario it was constructed on and of how far its thread is.     *)
(***************************************************************************)
EXTENDS Integers, Sequences, FiniteSets, TLC

VARIABLES
    state,           \* SystemState: [particles, rigid_bodies], sequences of bodies
    events,          \* the caller's event list
    config,          \* SimulationConfig
    variant,         \* how call 2's event list is derived from `events'
    run,             \* the call in progress: 1 or 2
    pc,              \* position inside run_simulation
    order,           \* trajectory column order (sorted body ids)
    positions,       \* working array, one 3-vector per column
    velocities,      \* working array
    masses,          \* working array
    thrusts,         \* working array
    schedule,        \* EventSchedule.by_step
    step_index,      \* loop variable of the driver loop
    event_pos,       \* position of the inner loop over events_at(step_index)
    acceleration,    \* the acceleration computed in the current iteration
    trajectory,      \* Trajectory under construction
    hashes,          \* list of state hashes
    camera_markers,  \* list of camera markers
    results,         \* what each call returned (or that it raised)
    \* render/sampling.py
    recorded,        \* the Trajectory handed to sample_trajectory
    time_s,          \* the query time of sample_trajectory and of evaluate
    sampled,         \* what sample_trajectory returned
    index_args,      \* the arguments of sample_index
    index,           \* what sample_index returned
    \* scenario/models.py, CameraTrack
    track,           \* CameraTrack: [keyframes, default_fov_deg]
    shuffled,        \* a track holding the keyframes of `track' in another order
    camera,          \* what track.evaluate(time_s) returned
    camera_shuffled, \* what shuffled.evaluate(time_s) returned
    last_query,      \* time and result of the first evaluate since the last edit
    \* render/export.py, render_video
    job,             \* RenderJob: [duration_s, fps]
    render_pc,       \* position inside render_video
    frame_count,
    frame_index,     \* loop variable of the frame loop
    process,         \* the encoder subprocess
    log,             \* the calls made on the encoder subprocess, in order
    failure,         \* the exception render_video raised, if any
    \* authoring/commands.py, CommandManager
    manager,         \* CommandManager: [scenario, undo_stack, redo_stack]
    history,         \* the scenarios the manager held, by depth of the undo stack
    last_call,       \* the last call of the manager: what raised, who was notified
    \* app/playback.py and app/main.py, the playback timer of the editor window
    playback,        \* [time_s, speed, dt_wall, duration_s, active] and the last tick
    \* app/main.py, MainWindow and its simulation workers
    window           \* [trajectory, needs_simulation, is_simulating, ..., workers]

simVars == <<state, events, config, variant, run, pc, order, positions, velocities,
             masses, thrusts, schedule, step_index, event_pos, acceleration,
             trajectory, hashes, camera_markers, results>>

samplingVars == <<recorded, time_s, sampled, index_args, index>>
cameraVars == <<track, shuffled, camera, camera_shuffled, last_query>>
exportVars == <<job, render_pc, frame_count, frame_index, process, log, failure>>
commandVars == <<manager, history, last_call>>
appVars == <<commandVars, playback, window>>
pipelineVars == <<samplingVars, cameraVars, exportVars, appVars>>

vars == <<simVars, pipelineVars>>

----------------------------------------------------------------------------
(* Bounds of the model *)

\* Grid resolution: the representable numbers are the integer multiples of 1/Scale
Scale == 16
\* config.steps ranges over 0..MaxSteps
MaxSteps == 2
\* The caller's event list holds at most MaxEvents events
MaxEvents == 2
\* A RenderJob lasts at most MaxHalfSeconds half seconds
MaxHalfSeconds == 3
\* and has at most MaxFps frames per second
MaxFps == 3
\* A float has Precision significant binary digits
Precision == 8
\* A CameraTrack holds at most MaxKeyframes keyframes
MaxKeyframes == 3
\* A Trajectory handed to sample_trajectory holds at most MaxSamples samples
MaxSamples == 3

----------------------------------------------------------------------------
(* Arithmetic on the grid *)

\* a/b rounded to the nearest integer, ties to even (b # 0)
RoundDiv(a, b) ==
    LET n == IF b < 0 THEN -a ELSE a
        d == IF b < 0 THEN -b ELSE b
        q == n \div d
        r == n % d
    IN  IF 2 * r < d THEN q
        ELSE IF 2 * r > d THEN q + 1
        ELSE IF q % 2 = 0 THEN q ELSE q + 1

\* float product x*y
FMul(x, y) == RoundDiv(x * y, Scale)

\* float quotient x/y
FDiv(x, y) == RoundDiv(x * Scale, y)

\* largest v in lo..hi with v*v <= n (lo*lo <= n)
RECURSIVE FloorSqrt(_, _, _)
FloorSqrt(n, lo, hi) ==
    IF lo >= hi THEN lo
    ELSE LET mid == (lo + hi + 1) \div 2
         IN  IF mid * mid <= n THEN FloorSqrt(n, mid, hi) ELSE FloorSqrt(n, lo, mid - 1)

\* np.sqrt(x), x >= 0.  The search for the integer square root of x*Scale stops
\* at 46340, the greatest integer whose square fits the model checker's integers.
FSqrt(x) ==
    LET n == x * Scale
        v == FloorSqrt(n, 0, IF x + Scale < 46340 THEN x + Scale ELSE 46340)
    IN  IF n - v * v > v THEN v + 1 ELSE v

\* Python's round(x) of a float x: the nearest integer, ties to even
PyRound(x) == RoundDiv(x, Scale)

(* 3-vectors and arrays of 3-vectors *)
Zero3 == <<0, 0, 0>>
VAdd(u, v) == [c \in 1..3 |-> u[c] + v[c]]
VSub(u, v) == [c \in 1..3 |-> u[c] - v[c]]
\* vector times scalar, componentwise float product
VMul(u, s) == [c \in 1..3 |-> FMul(u[c], s)]
\* vector by scalar, componentwise float quotient
VDiv(u, s) == [c \in 1..3 |-> FDiv(u[c], s)]
\* np.dot(u, v)
Dot(u, v) == FMul(u[1], v[1]) + FMul(u[2], v[2]) + FMul(u[3], v[3])
\* elementwise sum of two arrays of the same shape
AAdd(a, b) == [i \in DOMAIN a |-> VAdd(a[i], b[i])]
\* np.zeros_like(a)
ZerosLike(a) == [i \in DOMAIN a |-> Zero3]

Range(s) == {s[i] : i \in DOMAIN s}

\* sorted(ids): the ids of a set in ascending order
RECURSIVE SortedSeq(_)
SortedSeq(S) ==
    IF S = {} THEN <<>>
    ELSE LET m == CHOOSE x \in S : \A y \in S : x <= y
         IN  <<m>> \o SortedSeq(S \ {m})

----------------------------------------------------------------------------
(* The inputs of a call: bodies, events, configurations *)

\* the float of an integer literal
F(n) == n * Scale

\* Bodies (Particle and RigidBody carry the same fields the driver reads)
BodyA == [id |-> 1, mass |-> F(1), position |-> <<0, 0, 0>>,
          velocity |-> <<F(1), 0, 0>>, thrust |-> Zero3]
BodyB == [id |-> 2, mass |-> F(2), position |-> <<F(2), 0, 0>>,
          velocity |-> <<0, F(-1), 0>>, thrust |-> <<0, 0, F(1)>>]
\* a body with id 2 at the place of BodyA (distance zero)
BodyB0 == [id |-> 2, mass |-> F(1), position |-> <<0, 0, 0>>,
           velocity |-> Zero3, thrust |-> Zero3]
\* a second body with id 1
BodyA2 == [id |-> 1, mass |-> F(2), position |-> <<0, F(1), 0>>,
           velocity |-> Zero3, thrust |-> <<F(1), 0, 0>>]

\* a heavier body with id 2 next to BodyA, without thrust
BodyC == [id |-> 2, mass |-> F(2), position |-> <<F(1), 0, 0>>,
          velocity |-> <<0, F(-1), 0>>, thrust |-> Zero3]

StatePool ==
    { [particles |-> <<>>, rigid_bodies |-> <<>>],
      [particles |-> <<BodyA>>, rigid_bodies |-> <<>>],
      [particles |-> <<BodyB>>, rigid_bodies |-> <<BodyA>>],
      \* two bodies of id 1, and body 2 at the place of the one that is kept
      [particles |-> <<BodyA2, BodyB0>>, rigid_bodies |-> <<BodyA>>],
      \* two free bodies of unequal mass
      [particles |-> <<BodyA, BodyC>>, rigid_bodies |-> <<>>] }

ImpulseEvent(id, time, body_id, delta_v) ==
    [type |-> "impulse", id |-> id, time |-> time, body_id |-> body_id,
     delta_v |-> delta_v, thrust |-> Zero3, label |-> ""]
ThrustChangeEvent(id, time, body_id, thrust) ==
    [type |-> "thrust_change", id |-> id, time |-> time, body_id |-> body_id,
     delta_v |-> Zero3, thrust |-> thrust, label |-> ""]
CameraMarkerEvent(id, time, label) ==
    [type |-> "camera_marker", id |-> id, time |-> time, body_id |-> 0,
     delta_v |-> Zero3, thrust |-> Zero3, label |-> label]

EventPool ==
    { ImpulseEvent(2, 0, 1, <<F(1), 0, 0>>),
      ImpulseEvent(1, F(1), 2, <<0, 0, F(-1)>>),
      ImpulseEvent(3, F(1), 1, <<0, F(2), 0>>),
      \* body id 9 is an id no state of StatePool holds
      ImpulseEvent(4, F(1), 9, <<F(1), 0, 0>>),
      ThrustChangeEvent(1, 0, 1, <<0, 0, F(2)>>),
      ThrustChangeEvent(5, F(1), 1, <<F(3), 0, 0>>),
      CameraMarkerEvent(2, F(1), "m1"),
      CameraMarkerEvent(7, F(-1), "m2") }

\* all lists of at most n events of the pool
RECURSIVE EventLists(_)
EventLists(n) ==
    IF n = 0 THEN {<<>>}
    ELSE LET shorter == EventLists(n - 1)
         IN  shorter \cup {Append(l, e) : l \in {s \in shorter : Len(s) = n - 1},
                                          e \in EventPool}

Physics ==
    { [G |-> F(2), softening |-> F(1), drag_coefficient |-> 0,
       record_hashes |-> FALSE],
      [G |-> F(1), softening |-> 0, drag_coefficient |-> Scale \div 2,
       record_hashes |-> TRUE] }

ConfigPool ==
    { [dt |-> dt, steps |-> steps, G |-> p.G, softening |-> p.softening,
       drag_coefficient |-> p.drag_coefficient, record_hashes |-> p.record_hashes] :
      dt \in {F(1), F(2)}, steps \in 0..MaxSteps, p \in Physics }

\* How call 2's event list is derived from the caller's list: the same list, the
\* list without its camera markers, the list without its last event, the list
\* with two neighbours exchanged
NoVariant == [kind |-> "same", index |-> 0]
Variants(evs) ==
    { NoVariant, [kind |-> "no_markers", index |-> 0] }
    \cup (IF evs = <<>> THEN {} ELSE {[kind |-> "drop", index |-> Len(evs)]})
    \cup {[kind |-> "swap", index |-> i] : i \in 1..(Len(evs) - 1)}

\* the list with the items at i and i + 1 exchanged
SwapAt(s, i) ==
    [j \in DOMAIN s |-> IF j = i THEN s[i + 1] ELSE IF j = i + 1 THEN s[i] ELSE s[j]]

RemoveAt(s, i) == [j \in 1..(Len(s) - 1) |-> IF j < i THEN s[j] ELSE s[j + 1]]

RECURSIVE WithoutMarkers(_)
WithoutMarkers(evs) ==
    IF evs = <<>> THEN <<>>
    ELSE (IF Head(evs).type = "camera_marker" THEN <<>> ELSE <<Head(evs)>>)
         \o WithoutMarkers(Tail(evs))

\* the event list of call r when call 2 is the variant v
CallEvents(r, v) ==
    IF r = 1 \/ v.kind = "same" THEN events
    ELSE IF v.kind = "no_markers" THEN WithoutMarkers(events)
    ELSE IF v.kind = "swap" THEN SwapAt(events, v.index)
    ELSE RemoveAt(events, v.index)

----------------------------------------------------------------------------
(* core/events/schedule.py *)

\* int(event.time / dt + 0.5): rounding halves up instead of to even
StepIndexHalfUp(event, dt) == (FDiv(event.time, dt) + Scale \div 2) \div Scale

\* int(round(event.time / dt))
StepIndexOf(event, dt) == PyRound(FDiv(event.time, dt))

\* items.sort(key=lambda e: e.id): a stable sort by id; `item' goes behind the
\* items of `sorted' whose id is not greater
RECURSIVE InsertById(_, _)
InsertById(sorted, item) ==
    IF sorted = <<>> THEN <<item>>
    ELSE LET last == sorted[Len(sorted)]
         IN  IF last.id <= item.id THEN Append(sorted, item)
             ELSE Append(InsertById(SubSeq(sorted, 1, Len(sorted) - 1), item), last)

RECURSIVE SortById(_)
SortById(items) ==
    IF items = <<>> THEN <<>>
    ELSE InsertById(SortById(SubSeq(items, 1, Len(items) - 1)), items[Len(items)])

\* the events of evs, in list order, whose step index is k
RECURSIVE GroupOf(_, _, _)
GroupOf(evs, dt, k) ==
    IF evs = <<>> THEN <<>>
    ELSE (IF StepIndexOf(Head(evs), dt) = k THEN <<Head(evs)>> ELSE <<>>)
         \o GroupOf(Tail(evs), dt, k)

\* a schedule whose groups keep the order of the input list
build_schedule_unsorted(evs, dt) ==
    LET keys == {StepIndexOf(evs[i], dt) : i \in DOMAIN evs}
    IN  [k \in keys |-> GroupOf(evs, dt, k)]

\* build_schedule(events, dt).by_step
build_schedule(evs, dt) ==
    LET keys == {StepIndexOf(evs[i], dt) : i \in DOMAIN evs}
    IN  [k \in keys |-> SortById(GroupOf(evs, dt, k))]

\* EventSchedule.events_at(step_index)
events_at(by_step, k) == IF k \in DOMAIN by_step THEN by_step[k] ELSE <<>>

----------------------------------------------------------------------------
(* core/forces *)

\* the pairs (i, j), i < j <= count, from pair (i, j) on, in the order of the two loops
RECURSIVE PairsFrom(_, _, _)
PairsFrom(i, j, count) ==
    IF i > count THEN <<>>
    ELSE IF j > count THEN PairsFrom(i + 1, i + 2, count)
    ELSE <<<<i, j>>>> \o PairsFrom(i, j + 1, count)

\* the accumulation loop of compute_gravity_acceleration over the pairs left
RECURSIVE GravityLoop(_, _, _, _, _, _)
GravityLoop(pairs, accel, pos, mass, G, soft_sq) ==
    IF pairs = <<>> THEN accel
    ELSE LET i == Head(pairs)[1]
             j == Head(pairs)[2]
             r == VSub(pos[j], pos[i])
             dist_sq == Dot(r, r) + soft_sq
             inv_dist == FDiv(F(1), FSqrt(dist_sq))
             inv_dist3 == FMul(FMul(inv_dist, inv_dist), inv_dist)
             force == VMul([c \in 1..3 |-> FMul(G, r[c])], inv_dist3)
             next == IF dist_sq = 0 THEN accel
                     ELSE [accel EXCEPT ![i] = VAdd(@, VMul(force, mass[j])),
                                        ![j] = VSub(@, VMul(force, mass[i]))]
         IN  GravityLoop(Tail(pairs), next, pos, mass, G, soft_sq)

compute_gravity_acceleration(pos, mass, G, softening) ==
    LET count == Len(pos)
        summed == GravityLoop(PairsFrom(1, 2, count), ZerosLike(pos), pos, mass, G,
                              FMul(softening, softening))
    IN  IF count = 0 THEN ZerosLike(pos)
        ELSE [i \in DOMAIN pos |-> VDiv(summed[i], mass[i])]

compute_thrust_acceleration(thr, mass) ==
    IF Len(thr) = 0 THEN ZerosLike(thr)
    ELSE [i \in DOMAIN thr |-> VDiv(thr[i], mass[i])]

compute_linear_drag_acceleration(vel, drag_coefficient) ==
    IF drag_coefficient <= 0 THEN ZerosLike(vel)
    ELSE [i \in DOMAIN vel |-> VMul(vel[i], -drag_coefficient)]

\* gravity + thrust + drag of simulator.py
TotalAcceleration(pos, vel, thr, mass, cfg) ==
    AAdd(AAdd(compute_gravity_acceleration(pos, mass, cfg.G, cfg.softening),
              compute_thrust_acceleration(thr, mass)),
         compute_linear_drag_acceleration(vel, cfg.drag_coefficient))

(* core/integrators/semi_implicit_euler.py: step updates both arrays in place;  *)
(* the two operators give the arrays after the call                             *)
StepVelocities(vel, acc, dt) == [i \in DOMAIN vel |-> VAdd(vel[i], VMul(acc[i], dt))]
StepPositions(pos, newVel, dt) == [i \in DOMAIN pos |-> VAdd(pos[i], VMul(newVel[i], dt))]

----------------------------------------------------------------------------
(* core/determinism/hashing.py, core/run/trajectory.py *)

\* array.tobytes(order="C"): the rows one after the other
RECURSIVE Flatten(_)
Flatten(a) == IF a = <<>> THEN <<>> ELSE Head(a) \o Flatten(Tail(a))

\* a digest taken of the index of the next step
hash_state_next_index(k, pos, vel) == <<k + 1>> \o Flatten(pos) \o Flatten(vel)

\* hash_state: the digest of the step index followed by the positions and the
\* velocities, row-major.  SHA-256 is held to be injective: the digest is the
\* sequence of numbers it is taken of.
hash_state(k, pos, vel) == <<k>> \o Flatten(pos) \o Flatten(vel)

\* Trajectory(body_ids=order)
NewTrajectory(ids) == [body_ids |-> ids, times |-> <<>>, positions |-> <<>>,
                       velocities |-> <<>>]

\* a record that appends the arrays themselves instead of copies: every sample
\* of the trajectory is then the one working array, and shows its present content
record_alias(traj, time, pos, vel) ==
    [traj EXCEPT !.times = Append(@, time),
                 !.positions = [i \in 1..(Len(@) + 1) |-> pos],
                 !.velocities = [i \in 1..(Len(@) + 1) |-> vel]]

\* Trajectory.record: tolist() copies the arrays, so a sample is a value of its own
record(traj, time, pos, vel) ==
    [traj EXCEPT !.times = Append(@, time),
                 !.positions = Append(@, pos),
                 !.velocities = Append(@, vel)]

\* build_body_order(ids)
build_body_order(ids) == SortedSeq(ids)

----------------------------------------------------------------------------
(* core/run/simulator.py *)

\* SystemState.all_bodies()
all_bodies(st) == st.particles \o st.rigid_bodies

\* _collect_bodies(state): a dict keyed by body id; a later body of the same id
\* replaces the earlier one
collect_bodies(st) ==
    LET bodies == all_bodies(st)
        ids == {bodies[i].id : i \in DOMAIN bodies}
        lastOf(bid) == CHOOSE i \in DOMAIN bodies :
                          /\ bodies[i].id = bid
                          /\ \A j \in DOMAIN bodies : bodies[j].id = bid => j <= i
    IN  [bid \in ids |-> bodies[lastOf(bid)]]

\* id_to_index = {bid: idx for idx, bid in enumerate(order)}
IdToIndex(ord) == [bid \in Range(ord) |-> CHOOSE i \in DOMAIN ord : ord[i] = bid]

\* a loop over range(config.steps): one iteration short
LoopRangeShort(cfg) == 0..(cfg.steps - 1)

\* range(config.steps + 1)
LoopRange(cfg) == 0..cfg.steps

\* a marker list that outlives the call (a shared default, a module-level list)
StaleMarkerList == camera_markers

\* camera_markers: list[dict] = []
NewMarkerList == <<>>

\* a loop body that computes the acceleration before it applies the events
NextPhaseForcesFirst(phase) ==
    CASE phase = "record" -> "forces"
      [] phase = "forces" -> "events"
      [] phase = "events" -> "integrate"
      [] phase = "integrate" -> "next"

\* The statements of the loop body in their order: record the sample (and its
\* hash), apply the events of the step, compute the acceleration, integrate;
\* "next" is the end of the body.
NextPhase(phase) ==
    CASE phase = "record" -> "events"
      [] phase = "events" -> "forces"
      [] phase = "forces" -> "integrate"
      [] phase = "integrate" -> "next"

\* an impulse that replaces the velocity instead of adding to it
apply_event_impulse_sets(event, id_to_index, vel, thr, markers) ==
    LET known == event.body_id \in DOMAIN id_to_index
        idx == id_to_index[event.body_id]
        same == [raised |-> FALSE, velocities |-> vel, thrusts |-> thr,
                 camera_markers |-> markers]
    IN  IF event.type = "impulse" THEN
            IF known THEN [same EXCEPT !.velocities[idx] = event.delta_v]
            ELSE [same EXCEPT !.raised = TRUE]
        ELSE IF event.type = "thrust_change" THEN
            IF known THEN [same EXCEPT !.thrusts[idx] = event.thrust]
            ELSE [same EXCEPT !.raised = TRUE]
        ELSE IF event.type = "camera_marker" THEN
            [same EXCEPT !.camera_markers =
                Append(@, [time |-> event.time, label |-> event.label])]
        ELSE same

\* a thrust change that adds to the thrust instead of replacing it
apply_event_thrust_adds(event, id_to_index, vel, thr, markers) ==
    LET known == event.body_id \in DOMAIN id_to_index
        idx == id_to_index[event.body_id]
        same == [raised |-> FALSE, velocities |-> vel, thrusts |-> thr,
                 camera_markers |-> markers]
    IN  IF event.type = "impulse" THEN
            IF known THEN [same EXCEPT !.velocities[idx] = VAdd(@, event.delta_v)]
            ELSE [same EXCEPT !.raised = TRUE]
        ELSE IF event.type = "thrust_change" THEN
            IF known THEN [same EXCEPT !.thrusts[idx] = VAdd(@, event.thrust)]
            ELSE [same EXCEPT !.raised = TRUE]
        ELSE IF event.type = "camera_marker" THEN
            [same EXCEPT !.camera_markers =
                Append(@, [time |-> event.time, label |-> event.label])]
        ELSE same

\* a loop body that guards the lookup (`if event.body_id in id_to_index') and so
\* passes over an event for an unknown body
apply_event_skipping(event, id_to_index, vel, thr, markers) ==
    LET known == event.body_id \in DOMAIN id_to_index
        idx == id_to_index[event.body_id]
        same == [raised |-> FALSE, velocities |-> vel, thrusts |-> thr,
                 camera_markers |-> markers]
    IN  IF event.type = "impulse" /\ known THEN
            [same EXCEPT !.velocities[idx] = VAdd(@, event.delta_v)]
        ELSE IF event.type = "thrust_change" /\ known THEN
            [same EXCEPT !.thrusts[idx] = event.thrust]
        ELSE IF event.type = "camera_marker" THEN
            [same EXCEPT !.camera_markers =
                Append(@, [time |-> event.time, label |-> event.label])]
        ELSE same

\* One pass of the body of `for event in schedule.events_at(step_index)':
\* the arrays and the marker list after it, or that the lookup
\* id_to_index[event.body_id] raised KeyError
apply_event(event, id_to_index, vel, thr, markers) ==
    LET known == event.body_id \in DOMAIN id_to_index
        idx == id_to_index[event.body_id]
        same == [raised |-> FALSE, velocities |-> vel, thrusts |-> thr,
                 camera_markers |-> markers]
    IN  IF event.type = "impulse" THEN
            IF known THEN [same EXCEPT !.velocities[idx] = VAdd(@, event.delta_v)]
            ELSE [same EXCEPT !.raised = TRUE]
        ELSE IF event.type = "thrust_change" THEN
            IF known THEN [same EXCEPT !.thrusts[idx] = event.thrust]
            ELSE [same EXCEPT !.raised = TRUE]
        ELSE IF event.type = "camera_marker" THEN
            [same EXCEPT !.camera_markers =
                Append(@, [time |-> event.time, label |-> event.label])]
        ELSE same

\* a loop over the events of the step that a camera marker ends (`break')
NextEventPosBreak(event, pos, n) == IF event.type = "camera_marker" THEN n + 1 ELSE pos + 1

\* `for event in schedule.events_at(step_index)': the position after the pass
\* for `event' at position pos of a list of n events
NextEventPos(event, pos, n) == pos + 1

\* what a call has not returned yet, has returned, or that it raised
NoResult == [status |-> "none", trajectory |-> NewTrajectory(<<>>), hashes |-> <<>>,
             camera_markers |-> <<>>]
Raised == [NoResult EXCEPT !.status = "KeyError"]
SimulationResult(traj, hs, markers) ==
    [status |-> "returned", trajectory |-> traj, hashes |-> hs, camera_markers |-> markers]

\* no query made of the sampler yet
SamplingAtRest ==
    /\ recorded = NewTrajectory(<<>>)
    /\ time_s = 0
    /\ sampled = <<>>
    /\ index_args = [time_s |-> 0, dt |-> 0, sample_every |-> 0, num_samples |-> 0]
    /\ index = 0

\* no camera pose evaluated yet
NoCamera == [position |-> <<>>, target |-> <<>>, fov_deg |-> 0]
NoQuery == [asked |-> FALSE, repeated |-> FALSE, time_s |-> 0, camera |-> NoCamera]
CameraAtRest ==
    /\ track = [keyframes |-> <<>>, default_fov_deg |-> F(60)]
    /\ shuffled = track
    /\ camera = NoCamera
    /\ camera_shuffled = NoCamera
    /\ last_query = NoQuery

\* render_video not called
NoProcess == [spawned |-> 0, stdin |-> "none", waited |-> FALSE, returncode |-> "None"]
NoFailure == [error |-> "none", code |-> "None"]
ExportAtRest ==
    /\ job = [duration_s |-> 0, fps |-> 1]
    /\ render_pc = "idle"
    /\ frame_count = 0
    /\ frame_index = 0
    /\ process = NoProcess
    /\ log = <<>>
    /\ failure = NoFailure

\* a CommandManager on an empty scenario, never called
EmptyScenario == [particles |-> <<>>, rigid_bodies |-> <<>>, events |-> <<>>,
                  keyframes |-> <<>>]
NewManager(scenario) == [scenario |-> scenario, undo_stack |-> <<>>, redo_stack |-> <<>>]
NoCall == [op |-> "none", raised |-> "none", notified |-> FALSE, undoable |-> 0,
           redoable |-> 0]
CommandsAtRest ==
    /\ manager = NewManager(EmptyScenario)
    /\ history = <<EmptyScenario>>
    /\ last_call = NoCall

\* the playback timer never started, on a scenario of duration 0
NoPlayback == [time_s |-> 0, speed |-> F(1), dt_wall |-> 0, duration_s |-> 0,
               active |-> FALSE, before |-> 0, step |-> 0, returned |-> <<>>]

\* MainWindow after __init__, lines 40-61: nothing simulated, no worker
NewWindow == [trajectory |-> <<>>, needs_simulation |-> TRUE, is_simulating |-> FALSE,
              timer_active |-> FALSE, auto_play_on_sim_complete |-> FALSE,
              run_sim_enabled |-> TRUE, workers |-> <<>>]

AppAtRest ==
    /\ CommandsAtRest
    /\ playback = NoPlayback
    /\ window = NewWindow

\* run_simulation not called
SimAtRest ==
    /\ variant = NoVariant
    /\ run = 0
    /\ pc = "idle"
    /\ order = <<>>
    /\ positions = <<>>
    /\ velocities = <<>>
    /\ masses = <<>>
    /\ thrusts = <<>>
    /\ schedule = <<>>
    /\ step_index = 0
    /\ event_pos = 1
    /\ acceleration = <<>>
    /\ trajectory = NewTrajectory(<<>>)
    /\ hashes = <<>>
    /\ camera_markers = <<>>
    /\ results = [r \in 1..2 |-> NoResult]

Init ==
    /\ state \in StatePool
    /\ events \in EventLists(MaxEvents)
    /\ config \in ConfigPool
    /\ SimAtRest
    /\ SamplingAtRest
    /\ CameraAtRest
    /\ ExportAtRest
    /\ AppAtRest

inputs == <<state, events, config>>

\* pc and step_index after the statement `phase' of the loop body
Advance(phase) ==
    LET n == NextPhase(phase)
    IN  IF n = "next"
        THEN /\ step_index' = step_index + 1
             /\ pc' = IF step_index + 1 \in LoopRange(config) THEN "record" ELSE "return"
        ELSE /\ step_index' = step_index
             /\ pc' = n

\* the caller's event list after build_schedule has read it: the loop of lines
\* 25-27 only iterates it, and the sort of lines 28-29 sorts the lists of
\* by_step, which are the schedule's own
CallerListSortedInPlace(evs) == SortById(evs)
CallerListAfterSchedule(evs) == evs

\* the list object run_simulation is handed in call r is the caller's list
\* itself when the call is on the full list, and a list made for the call
\* otherwise
EventsAfterCall(evs, r, v) ==
    IF r = 1 \/ v.kind = "same" THEN CallerListAfterSchedule(evs) ELSE evs

\* run_simulation is called: lines 50-67, up to the loop
Call ==
    /\ pc = "idle"
    /\ run < 2
    /\ run' = run + 1
    /\ variant' \in IF run = 0 THEN {variant} ELSE Variants(events)
    /\ LET body_data == collect_bodies(state)
           ord == build_body_order(DOMAIN body_data)
       IN  /\ order' = ord
           /\ positions' = [i \in DOMAIN ord |-> body_data[ord[i]].position]
           /\ velocities' = [i \in DOMAIN ord |-> body_data[ord[i]].velocity]
           /\ masses' = [i \in DOMAIN ord |-> body_data[ord[i]].mass]
           /\ thrusts' = [i \in DOMAIN ord |-> body_data[ord[i]].thrust]
           /\ trajectory' = NewTrajectory(ord)
    /\ schedule' = build_schedule(CallEvents(run', variant'), config.dt)
    /\ hashes' = <<>>
    /\ camera_markers' = NewMarkerList
    /\ step_index' = 0
    /\ event_pos' = 1
    /\ acceleration' = <<>>
    /\ pc' = IF 0 \in LoopRange(config) THEN "record" ELSE "return"
    /\ events' = EventsAfterCall(events, run', variant')
    /\ UNCHANGED pipelineVars
    /\ UNCHANGED <<state, config, results>>

\* a loop whose break comes only at the end of the body: the events of the
\* last sample are applied too
RecordSampleBreakLate ==
    /\ pc = "record"
    /\ hashes' = IF config.record_hashes
                 THEN Append(hashes, hash_state(step_index, positions, velocities))
                 ELSE hashes
    /\ trajectory' = record(trajectory, step_index * config.dt, positions, velocities)
    /\ Advance("record")
    /\ UNCHANGED pipelineVars
    /\ UNCHANGED <<inputs, variant, run, order, positions, velocities, masses, thrusts, schedule,
                   event_pos, acceleration, camera_markers, results>>

\* lines 70-76: the hash, the sample, the break at the last step
RecordSample ==
    /\ pc = "record"
    /\ hashes' = IF config.record_hashes
                 THEN Append(hashes, hash_state(step_index, positions, velocities))
                 ELSE hashes
    /\ trajectory' = record(trajectory, step_index * config.dt, positions, velocities)
    /\ IF step_index = config.steps
       THEN pc' = "return" /\ step_index' = step_index
       ELSE Advance("record")
    /\ UNCHANGED pipelineVars
    /\ UNCHANGED <<inputs, variant, run, order, positions, velocities, masses, thrusts, schedule,
                   event_pos, acceleration, camera_markers, results>>

\* lines 78-86: one event of the step; a KeyError ends the call
ApplyEvent ==
    /\ pc = "events"
    /\ event_pos <= Len(events_at(schedule, step_index))
    /\ LET event == events_at(schedule, step_index)[event_pos]
           after == apply_event(event, IdToIndex(order), velocities, thrusts,
                                camera_markers)
       IN  IF after.raised
           THEN /\ pc' = "idle"
                /\ results' = [results EXCEPT ![run] = Raised]
                /\ UNCHANGED <<velocities, thrusts, camera_markers, event_pos>>
           ELSE /\ velocities' = after.velocities
                /\ thrusts' = after.thrusts
                /\ camera_markers' = after.camera_markers
                /\ event_pos' = NextEventPos(event, event_pos,
                                              Len(events_at(schedule, step_index)))
                /\ UNCHANGED <<pc, results>>
    /\ UNCHANGED pipelineVars
    /\ UNCHANGED <<inputs, variant, run, order, positions, masses, schedule, step_index,
                   acceleration, trajectory, hashes>>

\* the end of the loop over the events of the step
EndEvents ==
    /\ pc = "events"
    /\ event_pos > Len(events_at(schedule, step_index))
    /\ event_pos' = 1
    /\ Advance("events")
    /\ UNCHANGED pipelineVars
    /\ UNCHANGED <<inputs, variant, run, order, positions, velocities, masses, thrusts, schedule,
                   acceleration, trajectory, hashes, camera_markers, results>>

\* lines 88-91
ComputeForces ==
    /\ pc = "forces"
    /\ acceleration' = TotalAcceleration(positions, velocities, thrusts, masses, config)
    /\ Advance("forces")
    /\ UNCHANGED pipelineVars
    /\ UNCHANGED <<inputs, variant, run, order, positions, velocities, masses, thrusts, schedule,
                   event_pos, trajectory, hashes, camera_markers, results>>

\* an explicit Euler step: the position moves by the velocity before its update
IntegrateExplicit ==
    /\ pc = "integrate"
    /\ velocities' = StepVelocities(velocities, acceleration, config.dt)
    /\ positions' = StepPositions(positions, velocities, config.dt)
    /\ Advance("integrate")
    /\ UNCHANGED pipelineVars
    /\ UNCHANGED <<inputs, variant, run, order, masses, thrusts, schedule, event_pos,
                   acceleration, trajectory, hashes, camera_markers, results>>

\* line 93
Integrate ==
    /\ pc = "integrate"
    /\ velocities' = StepVelocities(velocities, acceleration, config.dt)
    /\ positions' = StepPositions(positions, velocities', config.dt)
    /\ Advance("integrate")
    /\ UNCHANGED pipelineVars
    /\ UNCHANGED <<inputs, variant, run, order, masses, thrusts, schedule, event_pos,
                   acceleration, trajectory, hashes, camera_markers, results>>

\* line 95
Return ==
    /\ pc = "return"
    /\ results' = [results EXCEPT ![run] = SimulationResult(trajectory, hashes,
                                                             camera_markers)]
    /\ pc' = "idle"
    /\ UNCHANGED pipelineVars
    /\ UNCHANGED <<inputs, variant, run, order, positions, velocities, masses, thrusts, schedule,
                   step_index, event_pos, acceleration, trajectory, hashes,
                   camera_markers>>

Next ==
    \/ Call
    \/ RecordSample
    \/ ApplyEvent
    \/ EndEvents
    \/ ComputeForces
    \/ Integrate
    \/ Return

Spec == Init /\ [][Next]_vars

----------------------------------------------------------------------------
(* authoring/validation.py: validate_scenario on the scenario whose bodies,  *)
(* events and settings are the inputs of run_simulation                      *)

ValidationIssue(path, id) == [severity |-> "error", path |-> path, id |-> id]

\* a validation that looks at the body of impulses only
validate_scenario_impulses_only(st, evs, settings) ==
    LET bodies == all_bodies(st)
        known_ids == {bodies[i].id : i \in DOMAIN bodies}
    IN  {ValidationIssue("bodies.mass", bodies[i].id) :
             i \in {j \in DOMAIN bodies : bodies[j].mass <= 0}}
        \cup (IF Cardinality(known_ids) # Len(bodies)
              THEN {ValidationIssue("bodies", 0)} ELSE {})
        \cup (IF settings.dt <= 0 THEN {ValidationIssue("settings.dt", 0)} ELSE {})
        \cup (IF settings.steps <= 0 THEN {ValidationIssue("settings.steps", 0)} ELSE {})
        \cup {ValidationIssue("events.body_id", evs[i].id) :
                 i \in {j \in DOMAIN evs : /\ evs[j].type = "impulse"
                                           /\ evs[j].body_id \notin known_ids}}

\* lines 24-85: the issues of the bodies (mass, duplicate ids), of the settings
\* and of the events.  Ids are never empty and numbers are finite in the model,
\* and the metadata holds no sample_every and no integrator, so that the checks
\* of lines 29, 34-47 and 57-71 find nothing.
validate_scenario(st, evs, settings) ==
    LET bodies == all_bodies(st)
        known_ids == {bodies[i].id : i \in DOMAIN bodies}
    IN  {ValidationIssue("bodies.mass", bodies[i].id) :
             i \in {j \in DOMAIN bodies : bodies[j].mass <= 0}}
        \cup (IF Cardinality(known_ids) # Len(bodies)
              THEN {ValidationIssue("bodies", 0)} ELSE {})
        \cup (IF settings.dt <= 0 THEN {ValidationIssue("settings.dt", 0)} ELSE {})
        \cup (IF settings.steps <= 0 THEN {ValidationIssue("settings.steps", 0)} ELSE {})
        \cup {ValidationIssue("events.body_id", evs[i].id) :
                 i \in {j \in DOMAIN evs : /\ evs[j].type \in {"impulse", "thrust_change"}
                                           /\ evs[j].body_id \notin known_ids}}

\* 1e-9, the floor of the time spans that sample_trajectory and evaluate divide
\* by.  Floats lie below it; on the grid two units stand for it, so that a time
\* span of one unit is a span below the floor
Epsilon == 2

----------------------------------------------------------------------------
(* render/export.py: render_video and its encoder subprocess                *)

\* The simulation driver is not running: the inputs of a scenario without
\* bodies and events
SimNotRunning ==
    /\ state = [particles |-> <<>>, rigid_bodies |-> <<>>]
    /\ events = <<>>
    /\ config = CHOOSE c \in ConfigPool : c.dt = F(1) /\ c.steps = 0 /\ ~c.record_hashes
    /\ SimAtRest

\* RenderJob: durations 0, 0.5, ... seconds and frame rates 0..MaxFps
JobPool ==
    { [duration_s |-> h * (Scale \div 2), fps |-> fps] :
      h \in 0..MaxHalfSeconds, fps \in 0..MaxFps }

\* the exit codes of the encoder: success, failure, killed by a signal
ExitCodes == {0, 1, -9}

\* line 31: frame_count = int(round(job.duration_s * job.fps))
frame_count_truncated(j) == (j.duration_s * j.fps) \div Scale
frame_count_of(j) == PyRound(j.duration_s * j.fps)

\* line 72: time_s = frame_index / job.fps
frame_time(i, fps) == RoundDiv(i * Scale, fps)

\* lines 91-92: the failure raised for the exit code, if any
exit_failure_positive(returncode) ==
    IF returncode > 0 THEN [error |-> "RuntimeError", code |-> returncode] ELSE NoFailure
exit_failure(returncode) ==
    IF returncode # 0 THEN [error |-> "RuntimeError", code |-> returncode] ELSE NoFailure

ProcessCall(op, i, t) == [op |-> op, frame |-> i, time_s |-> t]

ExportInit ==
    /\ SimNotRunning
    /\ AppAtRest
    /\ SamplingAtRest
    /\ CameraAtRest
    /\ job \in JobPool
    /\ render_pc = "idle"
    /\ frame_count = 0
    /\ frame_index = 0
    /\ process = NoProcess
    /\ log = <<>>
    /\ failure = NoFailure

exportFrame == <<simVars, samplingVars, cameraVars, appVars, job>>

\* lines 26-65: the scenario is loaded and simulated (either may raise), the
\* frame count and the encoder command are computed
RenderCall ==
    /\ render_pc = "idle"
    /\ \E raised \in BOOLEAN :
        IF raised
        THEN /\ render_pc' = "raised"
             /\ failure' = [error |-> "Exception", code |-> "None"]
             /\ UNCHANGED frame_count
        ELSE /\ render_pc' = "spawn"
             /\ frame_count' = frame_count_of(job)
             /\ UNCHANGED failure
    /\ UNCHANGED <<exportFrame, frame_index, process, log>>

\* lines 67-69: the encoder is spawned with a pipe as its input, or cannot be
\* started at all
Spawn ==
    /\ render_pc = "spawn"
    /\ \E started \in BOOLEAN :
        IF started
        THEN /\ process' = [spawned |-> process.spawned + 1, stdin |-> "open",
                            waited |-> FALSE, returncode |-> "None"]
             /\ log' = Append(log, ProcessCall("spawn", -1, 0))
             /\ render_pc' = "frames"
             /\ UNCHANGED failure
        ELSE /\ render_pc' = "raised"
             /\ failure' = [error |-> "OSError", code |-> "None"]
             /\ UNCHANGED <<process, log>>
    /\ frame_index' = 0
    /\ UNCHANGED <<exportFrame, frame_count>>

\* lines 71-87: one frame is generated (sampling, camera, rasterisation) and
\* written to the encoder's input; generating or writing it may raise, and the
\* exception leaves render_video at once
WriteFrame ==
    /\ render_pc = "frames"
    /\ frame_index < frame_count
    /\ \E raised \in {"none", "IndexError", "BrokenPipeError"} :
        IF raised = "none"
        THEN /\ log' = Append(log, ProcessCall("write", frame_index,
                                         frame_time(frame_index, job.fps)))
             /\ frame_index' = frame_index + 1
             /\ UNCHANGED <<render_pc, failure>>
        ELSE /\ render_pc' = "raised"
             /\ failure' = [error |-> raised, code |-> "None"]
             /\ UNCHANGED <<log, frame_index>>
    /\ UNCHANGED <<exportFrame, frame_count, process>>

\* line 89: the input channel is closed after the last frame; flushing what is
\* still buffered into a pipe the encoder has left raises
CloseInput ==
    /\ render_pc = "frames"
    /\ frame_index >= frame_count
    /\ process' = [process EXCEPT !.stdin = "closed"]
    /\ log' = Append(log, ProcessCall("close", -1, 0))
    /\ \E raised \in BOOLEAN :
        IF raised
        THEN /\ render_pc' = "raised"
             /\ failure' = [error |-> "BrokenPipeError", code |-> "None"]
        ELSE /\ render_pc' = "wait"
             /\ UNCHANGED failure
    /\ UNCHANGED <<exportFrame, frame_count, frame_index>>

\* line 90: the process is awaited; its exit code is the encoder's
Wait ==
    /\ render_pc = "wait"
    /\ \E code \in ExitCodes :
        process' = [process EXCEPT !.waited = TRUE, !.returncode = code]
    /\ log' = Append(log, ProcessCall("wait", -1, 0))
    /\ render_pc' = "check"
    /\ UNCHANGED <<exportFrame, frame_count, frame_index, failure>>

\* lines 91-92: a nonzero exit code is raised as a failure
CheckExit ==
    /\ render_pc = "check"
    /\ log' = Append(log, ProcessCall("check", -1, 0))
    /\ failure' = exit_failure(process.returncode)
    /\ render_pc' = IF failure' = NoFailure THEN "returned" ELSE "raised"
    /\ UNCHANGED <<exportFrame, frame_count, frame_index, process>>

ExportNext ==
    \/ RenderCall
    \/ Spawn
    \/ WriteFrame
    \/ CloseInput
    \/ Wait
    \/ CheckExit

SpecExport == ExportInit /\ [][ExportNext]_vars

----------------------------------------------------------------------------
(* Interpolation arithmetic.  sample_trajectory and CameraTrack.evaluate    *)
(* compare and combine stored numbers, so the rounding of a float sum or    *)
(* difference matters to them: a float has a fixed number of significant    *)
(* binary digits (53 in float64, Precision here), and every sum,            *)
(* difference, product and quotient is rounded to it, ties to even.         *)

\* the number of binary digits of n >= 0
RECURSIVE BitLength(_)
BitLength(n) == IF n = 0 THEN 0 ELSE 1 + BitLength(n \div 2)

RECURSIVE Pow2(_)
Pow2(k) == IF k = 0 THEN 1 ELSE 2 * Pow2(k - 1)

\* n rounded to Precision significant binary digits
RoundSig(n) ==
    LET m == IF n < 0 THEN -n ELSE n
        e == BitLength(m)
    IN  IF e <= Precision THEN n
        ELSE LET q == Pow2(e - Precision)
                 r == RoundDiv(m, q) * q
             IN  IF n < 0 THEN -r ELSE r

RAdd(x, y) == RoundSig(x + y)
RSub(x, y) == RoundSig(x - y)
RMul(x, y) == RoundSig(FMul(x, y))
RDiv(x, y) == RoundSig(FDiv(x, y))

\* max(d, 1e-9)
MaxEpsilon(d) == IF d > Epsilon THEN d ELSE Epsilon

\* left + (right - left) * t
Lerp(left, right, t) == RAdd(left, RMul(RSub(right, left), t))
Lerp3(left, right, t) == [c \in 1..3 |-> Lerp(left[c], right[c], t)]

----------------------------------------------------------------------------
(* scenario/models.py: CameraTrack.evaluate                                 *)

\* CameraKeyframe; fov_deg is <<>> for None and <<fov>> otherwise
CameraKeyframe(time, position, target, fov_deg) ==
    [time_s |-> time, position |-> position, target |-> target, fov_deg |-> fov_deg]

\* the keyframes of the example (t = 0 and t = 10), one without a fov of its
\* own, one more at the same time as that one, and one less than 1e-9 later
KeyframePool ==
    { CameraKeyframe(0, <<0, 0, F(10)>>, Zero3, <<F(60)>>),
      CameraKeyframe(F(10), <<F(10), 0, F(10)>>, Zero3, <<F(90)>>),
      CameraKeyframe(F(5), <<F(2), F(4), 0>>, <<F(1), 0, 0>>, <<>>),
      CameraKeyframe(F(5), <<F(-3), 0, 0>>, Zero3, <<F(30)>>),
      CameraKeyframe(F(5) + 1, <<F(4), 0, 0>>, Zero3, <<F(40)>>) }

DefaultFovPool == {F(45)}

QueryTimes == {F(-1), 0, F(3), F(5), F(5) + 1, F(10)}

CameraState(position, target, fov_deg) ==
    [position |-> position, target |-> target, fov_deg |-> fov_deg]

\* line 112: sorted(self.keyframes, key=lambda k: k.time_s), a stable sort
RECURSIVE InsertByTime(_, _)
InsertByTime(sorted, k) ==
    IF sorted = <<>> THEN <<k>>
    ELSE IF sorted[Len(sorted)].time_s <= k.time_s THEN Append(sorted, k)
    ELSE Append(InsertByTime(SubSeq(sorted, 1, Len(sorted) - 1), k), sorted[Len(sorted)])

RECURSIVE SortFrom(_, _)
SortFrom(sorted, rest) ==
    IF rest = <<>> THEN sorted ELSE SortFrom(InsertByTime(sorted, Head(rest)), Tail(rest))

Unsorted(keyframes) == keyframes
SortByTime(keyframes) == SortFrom(<<>>, keyframes)

\* lines 128-129 and 135: the fov of a keyframe, the track's default if it has none
fov_fixed_default(trk, keyframe) ==
    IF keyframe.fov_deg # <<>> THEN keyframe.fov_deg[1] ELSE F(60)
fov_of(trk, keyframe) ==
    IF keyframe.fov_deg # <<>> THEN keyframe.fov_deg[1] ELSE trk.default_fov_deg

\* lines 134-136
state_from_keyframe(trk, keyframe) ==
    CameraState(keyframe.position, keyframe.target, fov_of(trk, keyframe))

\* lines 118-132: the loop over zip(ordered, ordered[1:]) from pair i on
RECURSIVE ScanPairs(_, _, _, _)
ScanPairs(trk, ordered, i, time) ==
    IF i >= Len(ordered) THEN state_from_keyframe(trk, ordered[Len(ordered)])
    ELSE LET left == ordered[i]
             right == ordered[i + 1]
         IN  IF left.time_s <= time /\ time <= right.time_s
             THEN LET t == RDiv(RSub(time, left.time_s),
                                MaxEpsilon(RSub(right.time_s, left.time_s)))
                  IN  CameraState(Lerp3(left.position, right.position, t),
                                  Lerp3(left.target, right.target, t),
                                  Lerp(fov_of(trk, left), fov_of(trk, right), t))
             ELSE ScanPairs(trk, ordered, i + 1, time)

\* lines 109-132
evaluate(trk, time) ==
    IF trk.keyframes = <<>>
    THEN CameraState(<<0, 0, F(50)>>, Zero3, F(60))
    ELSE LET ordered == SortByTime(trk.keyframes)
         IN  IF time <= ordered[1].time_s THEN state_from_keyframe(trk, ordered[1])
             ELSE IF time >= ordered[Len(ordered)].time_s
                  THEN state_from_keyframe(trk, ordered[Len(ordered)])
                  ELSE ScanPairs(trk, ordered, 1, time)

\* the stored keyframe list after an evaluate: sorted() builds a new list
KeyframesSortedInPlace(keyframes) == SortByTime(keyframes)
KeyframesAfterEvaluate(keyframes) == keyframes

\* the lists that hold the elements of s in some order
Reorderings(s) ==
    { [i \in DOMAIN s |-> s[p[i]]] :
      p \in {q \in [DOMAIN s -> DOMAIN s] : \A i, j \in DOMAIN s : q[i] = q[j] => i = j} }

CameraInit ==
    /\ SimNotRunning
    /\ AppAtRest
    /\ SamplingAtRest
    /\ ExportAtRest
    /\ track \in {[keyframes |-> <<>>, default_fov_deg |-> f] : f \in DefaultFovPool}
    /\ shuffled = track
    /\ time_s = 0
    /\ camera = NoCamera
    /\ camera_shuffled = NoCamera
    /\ last_query = NoQuery

cameraFrame == <<simVars, exportVars, appVars, recorded, sampled, index_args, index>>

\* track.evaluate(t) and, on the track with the other list order, the same query
Evaluate ==
    /\ \E t \in QueryTimes :
        /\ time_s' = t
        /\ camera' = evaluate(track, t)
        /\ camera_shuffled' = evaluate(shuffled, t)
    /\ track' = [track EXCEPT !.keyframes = KeyframesAfterEvaluate(@)]
    /\ shuffled' = [shuffled EXCEPT !.keyframes = KeyframesAfterEvaluate(@)]
    /\ last_query' = IF last_query.asked THEN [last_query EXCEPT !.repeated = TRUE]
                     ELSE [asked |-> TRUE, repeated |-> FALSE, time_s |-> time_s',
                           camera |-> camera']
    /\ UNCHANGED cameraFrame

\* the track after an edit, with any list order for the other track
Edited(keyframes) ==
    /\ track' = [track EXCEPT !.keyframes = keyframes]
    /\ \E other \in Reorderings(keyframes) :
          shuffled' = [shuffled EXCEPT !.keyframes = other]
    /\ camera' = NoCamera
    /\ camera_shuffled' = NoCamera
    /\ last_query' = NoQuery
    /\ UNCHANGED <<time_s, cameraFrame>>

\* authoring/commands.py, AddCameraKeyframe.do: a keyframe is appended
AddCameraKeyframe ==
    /\ Len(track.keyframes) < MaxKeyframes
    /\ \E k \in KeyframePool : Edited(Append(track.keyframes, k))

\* authoring/commands.py, DeleteCameraKeyframe.do: the keyframe at an index is removed
DeleteCameraKeyframe ==
    \E i \in DOMAIN track.keyframes : Edited(RemoveAt(track.keyframes, i))

CameraNext ==
    \/ Evaluate
    \/ AddCameraKeyframe
    \/ DeleteCameraKeyframe

SpecCamera == CameraInit /\ [][CameraNext]_vars

----------------------------------------------------------------------------
(* render/sampling.py: sample_trajectory and sample_index                   *)

Maximum(a, b) == IF a >= b THEN a ELSE b
Minimum(a, b) == IF a <= b THEN a ELSE b

\* x coordinates of the recorded positions: 0, 2, and two numbers whose
\* difference needs more significant digits than a float has
SamplePositions == {0, F(2), 1 - Pow2(Precision), 2}

\* the one or two rows of a sample whose first body is at x
SampleRows(x, bodies) ==
    IF bodies = 1 THEN << <<x, 0, 0>> >> ELSE << <<x, 0, 0>>, <<F(1), x, 0>> >>

\* Trajectories of 0..MaxSamples samples at increasing times t0, t0 + dt, ...,
\* the steps dt being 1, 2 or less than 1e-9
TrajectoryPool ==
    UNION { { [body_ids |-> [b \in 1..bodies |-> b],
               times |-> [i \in 1..n |-> t0 + (i - 1) * dt],
               positions |-> [i \in 1..n |-> SampleRows(xs[i], bodies)],
               velocities |-> [i \in 1..n |-> [b \in 1..bodies |-> Zero3]]] :
              xs \in [1..n -> SamplePositions], t0 \in {0, F(1)}, dt \in {1, F(1), F(2)},
              bodies \in 1..2 } :
            n \in 0..MaxSamples }

SampleTimes == {F(-1), 0, 1, Scale \div 2, F(1), F(1) + 1, F(2), F(3), F(5)}

\* line 29: t = (time_s - left_t) / max(right_t - left_t, 1e-9)
fraction_unshifted(time, left_t, right_t) ==
    RDiv(time, MaxEpsilon(RSub(right_t, left_t)))
fraction(time, left_t, right_t) ==
    RDiv(RSub(time, left_t), MaxEpsilon(RSub(right_t, left_t)))

\* lines 30-40: the rows interpolated between two samples
interpolated(left, right, t) ==
    [b \in 1..Minimum(Len(left), Len(right)) |-> Lerp3(left[b], right[b], t)]

\* lines 25-41: the loop over range(1, len(times)), from idx on (idx counts from 1)
RECURSIVE ScanTimes(_, _, _)
ScanTimes(traj, idx, time) ==
    IF idx > Len(traj.times) THEN traj.positions[Len(traj.positions)]
    ELSE IF traj.times[idx] >= time
         THEN interpolated(traj.positions[idx - 1], traj.positions[idx],
                           fraction(time, traj.times[idx - 1], traj.times[idx]))
         ELSE ScanTimes(traj, idx + 1, time)

\* lines 16-41
sample_trajectory(traj, time) ==
    IF traj.times = <<>> THEN <<>>
    ELSE IF time <= traj.times[1] THEN traj.positions[1]
    ELSE IF time >= traj.times[Len(traj.times)] THEN traj.positions[Len(traj.positions)]
    ELSE ScanTimes(traj, 2, time)

\* the trajectory after sample_trajectory: it is only read
TrajectoryAfterSample(traj) == traj

\* line 13: max(0, min(raw_index, num_samples - 1))
clamp_to_length(raw_index, num_samples) == Maximum(0, Minimum(raw_index, num_samples))
clamp(raw_index, num_samples) == Maximum(0, Minimum(raw_index, num_samples - 1))

\* lines 6-13
sample_index(time, dt, sample_every, num_samples) ==
    IF num_samples <= 0 THEN 0
    ELSE LET step == RoundSig(dt * Maximum(sample_every, 1))
         IN  IF step <= 0 THEN 0
             ELSE clamp(PyRound(RDiv(time, step)), num_samples)

\* the arguments of sample_index: those of the test (dt 1, sample_every 2, 5
\* samples, times 0, 8, 9, -1) among others
IndexArgsPool ==
    [time_s : {F(-1), 0, F(1), F(3), F(8), F(9)},
     dt : {F(-1), 0, Scale \div 2, F(1)},
     sample_every : {-1, 0, 1, 2},
     num_samples : {-1, 0, 1, 5}]

SamplingInit ==
    /\ SimNotRunning
    /\ AppAtRest
    /\ CameraAtRest
    /\ ExportAtRest
    /\ recorded \in TrajectoryPool
    /\ time_s = 0
    /\ sampled = <<>>
    /\ index_args = [time_s |-> 0, dt |-> 0, sample_every |-> 0, num_samples |-> 0]
    /\ index = 0

\* sample_trajectory(recorded, t)
SampleTrajectory ==
    /\ \E t \in SampleTimes :
        /\ time_s' = t
        /\ sampled' = sample_trajectory(recorded, t)
    /\ recorded' = TrajectoryAfterSample(recorded)
    /\ UNCHANGED <<simVars, cameraVars, exportVars, appVars, index_args, index>>

SamplingNext == SampleTrajectory

SpecSampling == SamplingInit /\ [][SamplingNext]_vars

IndexInit ==
    /\ SimNotRunning
    /\ AppAtRest
    /\ CameraAtRest
    /\ ExportAtRest
    /\ SamplingAtRest

\* sample_index(time_s, dt, sample_every, num_samples)
SampleIndex ==
    /\ \E a \in IndexArgsPool :
        /\ index_args' = a
        /\ index' = sample_index(a.time_s, a.dt, a.sample_every, a.num_samples)
    /\ UNCHANGED <<simVars, cameraVars, exportVars, appVars, recorded, time_s, sampled>>

IndexNext == SampleIndex

SpecIndex == IndexInit /\ [][IndexNext]_vars

----------------------------------------------------------------------------
(* authoring/commands.py: the commands and the CommandManager                *)
(*                                                                           *)
(* A Python object that may be None is held as a sequence: <<>> is None and  *)
(* <<x>> is the object x.  The private fields of a command (snapshot,        *)
(* previous, collection, stored) start as None.  List indices are those of   *)
(* Python and start at 0.  A field path is the sequence of its segments.     *)

\* A command applies at most MaxCommands commands on top of one another
MaxCommands == 2

Particle(id, mass, position) ==
    [kind |-> "Particle", id |-> id, mass |-> mass, position |-> position]
RigidBody(id, mass, position) ==
    [kind |-> "RigidBody", id |-> id, mass |-> mass, position |-> position]
Event(id, time) == [id |-> id, time |-> time]

\* the scenarios a manager is constructed on: the empty one of the tests, and
\* one with a particle, an event and a keyframe without a fov of its own
ScenarioPool ==
    { EmptyScenario,
      [particles |-> <<Particle(1, F(1), Zero3)>>, rigid_bodies |-> <<>>,
       events |-> <<Event(1, 0)>>,
       keyframes |-> <<CameraKeyframe(0, <<0, 0, F(10)>>, Zero3, <<>>)>>] }

Command(type, args) ==
    [type |-> type, args |-> args, snapshot |-> <<>>, previous |-> <<>>,
     collection |-> <<>>, stored |-> <<>>]

CommandPool ==
    { Command("AddBody", [body |-> Particle(2, F(2), <<F(1), 0, 0>>)]),
      Command("AddBody", [body |-> RigidBody(1, F(1), Zero3)]),
      Command("DeleteBody", [body_id |-> 1]),
      Command("UpdateBodyProperty",
              [body_id |-> 1, field_path |-> <<"mass">>, value |-> <<F(3)>>]),
      Command("UpdateBodyProperty",
              [body_id |-> 1, field_path |-> <<"position", "0">>, value |-> <<F(5)>>]),
      Command("UpdateBodyProperty",
              [body_id |-> 1, field_path |-> <<"nope">>, value |-> <<F(3)>>]),
      Command("MoveBody", [body_id |-> 1, new_position |-> <<F(5), F(2), 0>>]),
      Command("AddEvent", [event |-> Event(1, F(1))]),
      Command("DeleteEvent", [event_id |-> 1]),
      Command("UpdateEventProperty",
              [event_id |-> 1, field_path |-> <<"time">>, value |-> <<F(2)>>]),
      Command("AddCameraKeyframe",
              [keyframe |-> CameraKeyframe(F(5), Zero3, Zero3, <<F(60)>>)]),
      Command("DeleteCameraKeyframe", [index |-> 0]),
      Command("UpdateCameraKeyframe",
              [index |-> 0, field_path |-> <<"time_s">>, value |-> <<F(1)>>]),
      Command("UpdateCameraKeyframe",
              [index |-> 0, field_path |-> <<"fov_deg">>, value |-> <<F(30)>>]) }

\* list.insert(index, item) and `items[index] = item' on a list
InsertAt(s, idx, item) ==
    LET at == IF idx > Len(s) THEN Len(s) ELSE idx
    IN  SubSeq(s, 1, at) \o <<item>> \o SubSeq(s, at + 1, Len(s))
ReplaceAt(s, idx, item) == [s EXCEPT ![idx + 1] = item]

\* [b for b in bodies if b.id != id]
RECURSIVE WithoutId(_, _)
WithoutId(s, id) ==
    IF s = <<>> THEN <<>>
    ELSE (IF Head(s).id # id THEN <<Head(s)>> ELSE <<>>) \o WithoutId(Tail(s), id)

\* the position (from 0) of the first item of the list with the id, or -1
FirstWithId(s, id) ==
    IF \E i \in DOMAIN s : s[i].id = id
    THEN (CHOOSE i \in DOMAIN s : s[i].id = id /\ \A j \in 1..(i - 1) : s[j].id # id) - 1
    ELSE -1

\* what a function returns, or the exception it raises
Returns(value) == [raised |-> "none", value |-> value]
Raises(error) == [raised |-> error, value |-> <<>>]

\* lines 47-54: the collection, the index and the body
get_body_and_collection(scenario, body_id) ==
    LET p == FirstWithId(scenario.particles, body_id)
        r == FirstWithId(scenario.rigid_bodies, body_id)
    IN  IF p >= 0 THEN Returns([collection |-> "particles", index |-> p,
                                body |-> scenario.particles[p + 1]])
        ELSE IF r >= 0 THEN Returns([collection |-> "rigid_bodies", index |-> r,
                                     body |-> scenario.rigid_bodies[r + 1]])
        ELSE Raises("CommandError")

\* lines 57-61
get_event_index(scenario, event_id) ==
    LET e == FirstWithId(scenario.events, event_id)
    IN  IF e >= 0 THEN Returns([index |-> e, event |-> scenario.events[e + 1]])
        ELSE Raises("CommandError")

\* lines 64-67
get_keyframe(scenario, idx) ==
    IF idx < 0 \/ idx >= Len(scenario.keyframes) THEN Raises("CommandError")
    ELSE Returns(scenario.keyframes[idx + 1])

\* the fields that hold a tuple, the field that may hold None, the segments
\* that are digits
TupleFields == {"position", "target"}
OptionalFields == {"fov_deg"}
Digits == [d \in {"0", "1", "2"} |-> CASE d = "0" -> 0 [] d = "1" -> 1 [] d = "2" -> 2]

\* getattr(obj, field) as a Python object
Attribute(obj, field) == IF field \in OptionalFields THEN obj[field] ELSE <<obj[field]>>

\* lines 78-89, for a path of one segment (an attribute) or of two (an
\* attribute and an index into its tuple)
get_path_value(obj, path) ==
    IF path[1] \notin DOMAIN obj THEN Raises("CommandError")
    ELSE IF Len(path) = 1 THEN Returns(Attribute(obj, path[1]))
    ELSE IF path[1] \in TupleFields /\ path[2] \in DOMAIN Digits
         THEN IF Digits[path[2]] < Len(obj[path[1]])
              THEN Returns(<<obj[path[1]][Digits[path[2]] + 1]>>)
              ELSE Raises("IndexError")
         ELSE Raises("CommandError")

\* lines 92-119 with _coerce_value of lines 70-75, for the fields the commands
\* of the pool write: a float (float(None) raises TypeError), the fov that may
\* be None (any object replaces None as it is) and an element of a tuple
set_path_value(obj, path, value) ==
    IF path[1] \notin DOMAIN obj THEN Raises("CommandError")
    ELSE IF Len(path) = 1
         THEN IF path[1] \in OptionalFields
              THEN IF obj[path[1]] # <<>> /\ value = <<>> THEN Raises("TypeError")
                   ELSE Returns([obj EXCEPT ![path[1]] = value])
              ELSE IF value = <<>> THEN Raises("TypeError")
                   ELSE Returns([obj EXCEPT ![path[1]] = value[1]])
    ELSE IF path[1] \in TupleFields /\ path[2] \in DOMAIN Digits
         THEN IF Digits[path[2]] < Len(obj[path[1]])
              THEN Returns([obj EXCEPT ![path[1]][Digits[path[2]] + 1] = value[1]])
              ELSE Raises("CommandError")
         ELSE Raises("CommandError")

\* the outcome of do and of undo: the exception raised, the scenario returned
\* (_copy_scenario gives every call a scenario of its own to change) and the
\* command with its private fields as the call leaves them
Done(scenario, command) == [raised |-> "none", scenario |-> scenario, command |-> command]
Failed(error, scenario, command) ==
    [raised |-> error, scenario |-> scenario, command |-> command]

\* the list of bodies `collection' names, and the scenario with another list
Bodies(scenario, collection) ==
    IF collection = "particles" THEN scenario.particles ELSE scenario.rigid_bodies
WithBodies(scenario, collection, bodies) ==
    IF collection = "particles" THEN [scenario EXCEPT !.particles = bodies]
    ELSE [scenario EXCEPT !.rigid_bodies = bodies]

\* the read and the write of an update: `self._previous = _get_path_value(...)'
\* and `_set_path_value(...)'; the command remembers the previous value as
\* soon as it is read
Update(c, obj, path, value) ==
    LET got == get_path_value(obj, path)
        set == set_path_value(obj, path, value)
    IN  IF got.raised # "none" THEN [raised |-> got.raised, value |-> obj, command |-> c]
        ELSE [raised |-> set.raised, value |-> set.value,
              command |-> [c EXCEPT !.previous = got.value]]

\* Command.do of the ten commands, lines 175-185, 202-212, 235-247, 276-287,
\* 311-316, 331-337, 356-364, 383-387, 404-408, 426-433.  MoveBody reads and
\* replaces the position as an update of the field position does.
do(c, scenario) ==
    LET a == c.args
        body_ids == {b.id : b \in Range(scenario.particles) \cup Range(scenario.rigid_bodies)}
        event_ids == {e.id : e \in Range(scenario.events)}
    IN  CASE c.type = "AddBody" ->
               IF a.body.id \in body_ids THEN Failed("CommandError", scenario, c)
               ELSE IF a.body.kind = "Particle"
                    THEN Done([scenario EXCEPT !.particles = Append(@, a.body)], c)
                    ELSE Done([scenario EXCEPT !.rigid_bodies = Append(@, a.body)], c)
          [] c.type = "DeleteBody" ->
               LET found == get_body_and_collection(scenario, a.body_id)
                   f == found.value
               IN  IF found.raised # "none" THEN Failed(found.raised, scenario, c)
                   ELSE Done(WithBodies(scenario, f.collection,
                                        RemoveAt(Bodies(scenario, f.collection), f.index + 1)),
                             [c EXCEPT !.snapshot = <<f.body>>,
                                       !.collection = <<f.collection>>,
                                       !.stored = <<f.index>>])
          [] c.type \in {"UpdateBodyProperty", "MoveBody"} ->
               LET found == get_body_and_collection(scenario, a.body_id)
                   f == found.value
                   u == IF c.type = "MoveBody"
                        THEN Update(c, f.body, <<"position">>, <<a.new_position>>)
                        ELSE Update(c, f.body, a.field_path, a.value)
               IN  IF found.raised # "none" THEN Failed(found.raised, scenario, c)
                   ELSE IF u.raised # "none" THEN Failed(u.raised, scenario, u.command)
                   ELSE Done(WithBodies(scenario, f.collection,
                                        ReplaceAt(Bodies(scenario, f.collection), f.index,
                                                  u.value)),
                             [u.command EXCEPT !.collection = <<f.collection>>,
                                               !.stored = <<f.index>>])
          [] c.type = "AddEvent" ->
               IF a.event.id \in event_ids THEN Failed("CommandError", scenario, c)
               ELSE Done([scenario EXCEPT !.events = Append(@, a.event)], c)
          [] c.type = "DeleteEvent" ->
               LET found == get_event_index(scenario, a.event_id)
                   f == found.value
               IN  IF found.raised # "none" THEN Failed(found.raised, scenario, c)
                   ELSE Done([scenario EXCEPT !.events = RemoveAt(@, f.index + 1)],
                             [c EXCEPT !.snapshot = <<f.event>>, !.stored = <<f.index>>])
          [] c.type = "UpdateEventProperty" ->
               LET found == get_event_index(scenario, a.event_id)
                   f == found.value
                   u == Update(c, f.event, a.field_path, a.value)
               IN  IF found.raised # "none" THEN Failed(found.raised, scenario, c)
                   ELSE IF u.raised # "none" THEN Failed(u.raised, scenario, u.command)
                   ELSE Done([scenario EXCEPT !.events = ReplaceAt(@, f.index, u.value)],
                             [u.command EXCEPT !.stored = <<f.index>>])
          [] c.type = "AddCameraKeyframe" ->
               Done([scenario EXCEPT !.keyframes = Append(@, a.keyframe)],
                    [c EXCEPT !.stored = <<Len(scenario.keyframes)>>])
          [] c.type = "DeleteCameraKeyframe" ->
               LET found == get_keyframe(scenario, a.index)
               IN  IF found.raised # "none" THEN Failed(found.raised, scenario, c)
                   ELSE Done([scenario EXCEPT !.keyframes = RemoveAt(@, a.index + 1)],
                             [c EXCEPT !.snapshot = <<found.value>>])
          [] c.type = "UpdateCameraKeyframe" ->
               LET found == get_keyframe(scenario, a.index)
                   u == Update(c, found.value, a.field_path, a.value)
               IN  IF found.raised # "none" THEN Failed(found.raised, scenario, c)
                   ELSE IF u.raised # "none" THEN Failed(u.raised, scenario, u.command)
                   ELSE Done([scenario EXCEPT !.keyframes = ReplaceAt(@, a.index, u.value)],
                             u.command)

\* `self._previous is None or ...': a private field the undo needs is None
Missing(fields) == \E i \in DOMAIN fields : fields[i] = <<>>

\* the item at a Python index of a list, IndexError beyond its end
ItemAt(s, idx) == IF idx < Len(s) THEN Returns(s[idx + 1]) ELSE Raises("IndexError")

\* Command.undo of the ten commands, lines 187-191, 214-222, 249-264, 289-303,
\* 318-321, 339-344, 366-374, 389-395, 410-415, 435-443
undo(c, scenario) ==
    LET a == c.args
    IN  CASE c.type = "AddBody" ->
               Done([scenario EXCEPT !.particles = WithoutId(@, a.body.id),
                                     !.rigid_bodies = WithoutId(@, a.body.id)], c)
          [] c.type = "DeleteBody" ->
               IF Missing(<<c.snapshot, c.collection, c.stored>>)
               THEN Failed("CommandError", scenario, c)
               ELSE Done(WithBodies(scenario, c.collection[1],
                                    InsertAt(Bodies(scenario, c.collection[1]), c.stored[1],
                                             c.snapshot[1])), c)
          [] c.type \in {"UpdateBodyProperty", "MoveBody"} ->
               IF Missing(<<c.previous, c.collection, c.stored>>)
               THEN Failed("CommandError", scenario, c)
               ELSE LET body == ItemAt(Bodies(scenario, c.collection[1]), c.stored[1])
                        restored == IF c.type = "MoveBody"
                                    THEN Returns([body.value EXCEPT !.position = c.previous[1]])
                                    ELSE set_path_value(body.value, a.field_path, c.previous)
                    IN  IF body.raised # "none" THEN Failed(body.raised, scenario, c)
                        ELSE IF restored.raised # "none"
                             THEN Failed(restored.raised, scenario, c)
                        ELSE Done(WithBodies(scenario, c.collection[1],
                                             ReplaceAt(Bodies(scenario, c.collection[1]),
                                                       c.stored[1], restored.value)), c)
          [] c.type = "AddEvent" ->
               Done([scenario EXCEPT !.events = WithoutId(@, a.event.id)], c)
          [] c.type = "DeleteEvent" ->
               IF Missing(<<c.snapshot, c.stored>>) THEN Failed("CommandError", scenario, c)
               ELSE Done([scenario EXCEPT !.events = InsertAt(@, c.stored[1], c.snapshot[1])],
                         c)
          [] c.type = "UpdateEventProperty" ->
               IF Missing(<<c.previous, c.stored>>) THEN Failed("CommandError", scenario, c)
               ELSE LET event == ItemAt(scenario.events, c.stored[1])
                        restored == set_path_value(event.value, a.field_path, c.previous)
                    IN  IF event.raised # "none" THEN Failed(event.raised, scenario, c)
                        ELSE IF restored.raised # "none"
                             THEN Failed(restored.raised, scenario, c)
                        ELSE Done([scenario EXCEPT
                                      !.events = ReplaceAt(@, c.stored[1], restored.value)], c)
          [] c.type = "AddCameraKeyframe" ->
               IF Missing(<<c.stored>>) THEN Failed("CommandError", scenario, c)
               ELSE IF c.stored[1] < Len(scenario.keyframes)
                    THEN Done([scenario EXCEPT !.keyframes = RemoveAt(@, c.stored[1] + 1)], c)
                    ELSE Done(scenario, c)
          [] c.type = "DeleteCameraKeyframe" ->
               IF Missing(<<c.snapshot>>) THEN Failed("CommandError", scenario, c)
               ELSE Done([scenario EXCEPT
                             !.keyframes = InsertAt(@, a.index, c.snapshot[1])], c)
          [] c.type = "UpdateCameraKeyframe" ->
               IF Missing(<<c.previous>>) THEN Failed("CommandError", scenario, c)
               ELSE LET keyframe == ItemAt(scenario.keyframes, a.index)
                        restored == set_path_value(keyframe.value, a.field_path, c.previous)
                    IN  IF keyframe.raised # "none" THEN Failed(keyframe.raised, scenario, c)
                        ELSE IF restored.raised # "none"
                             THEN Failed(restored.raised, scenario, c)
                        ELSE Done([scenario EXCEPT
                                      !.keyframes = ReplaceAt(@, a.index, restored.value)], c)

\* the outcome of a call of the manager: the manager after it, the exception
\* that left it, whether the listeners were notified
Outcome(m, raised, notified) == [manager |-> m, raised |-> raised, notified |-> notified]

Top(stack) == stack[Len(stack)]
Pop(stack) == SubSeq(stack, 1, Len(stack) - 1)

\* an apply that pushes the command and clears the redo stack before do is called
ManagerApplyPushFirst(m, command) ==
    LET out == do(command, m.scenario)
        pushed == [m EXCEPT !.undo_stack = Append(@, out.command), !.redo_stack = <<>>]
    IN  IF out.raised # "none" THEN Outcome(pushed, out.raised, FALSE)
        ELSE Outcome([pushed EXCEPT !.scenario = out.scenario], "none", TRUE)

\* an apply that leaves the redo stack as it is
ManagerApplyKeepsRedo(m, command) ==
    LET out == do(command, m.scenario)
    IN  IF out.raised # "none" THEN Outcome(m, out.raised, FALSE)
        ELSE Outcome([m EXCEPT !.scenario = out.scenario,
                               !.undo_stack = Append(@, out.command)], "none", TRUE)

\* CommandManager.apply, lines 141-145
ManagerApply(m, command) ==
    LET out == do(command, m.scenario)
    IN  IF out.raised # "none" THEN Outcome(m, out.raised, FALSE)
        ELSE Outcome([scenario |-> out.scenario,
                      undo_stack |-> Append(m.undo_stack, out.command),
                      redo_stack |-> <<>>], "none", TRUE)

\* CommandManager.undo, lines 147-153: the command is popped before its undo
\* is called
ManagerUndo(m) ==
    IF m.undo_stack = <<>> THEN Outcome(m, "none", FALSE)
    ELSE LET out == undo(Top(m.undo_stack), m.scenario)
             popped == [m EXCEPT !.undo_stack = Pop(@)]
         IN  IF out.raised # "none" THEN Outcome(popped, out.raised, FALSE)
             ELSE Outcome([popped EXCEPT !.scenario = out.scenario,
                                         !.redo_stack = Append(@, out.command)],
                          "none", TRUE)

\* CommandManager.redo, lines 155-161
ManagerRedo(m) ==
    IF m.redo_stack = <<>> THEN Outcome(m, "none", FALSE)
    ELSE LET out == do(Top(m.redo_stack), m.scenario)
             popped == [m EXCEPT !.redo_stack = Pop(@)]
         IN  IF out.raised # "none" THEN Outcome(popped, out.raised, FALSE)
             ELSE Outcome([popped EXCEPT !.scenario = out.scenario,
                                         !.undo_stack = Append(@, out.command)],
                          "none", TRUE)

CommandInit ==
    /\ SimNotRunning
    /\ SamplingAtRest
    /\ CameraAtRest
    /\ ExportAtRest
    /\ manager \in {NewManager(scenario) : scenario \in ScenarioPool}
    /\ history = <<manager.scenario>>
    /\ last_call = NoCall
    /\ playback = NoPlayback
    /\ window = NewWindow

commandFrame == <<simVars, samplingVars, cameraVars, exportVars, playback, window>>

\* the record of a call: the method, its outcome, and the sizes of the two
\* stacks before it
Called(op, out) ==
    [op |-> op, raised |-> out.raised, notified |-> out.notified,
     undoable |-> Len(manager.undo_stack), redoable |-> Len(manager.redo_stack)]

\* manager.apply(command) for a new command object
Apply ==
    /\ Len(manager.undo_stack) < MaxCommands
    /\ \E command \in CommandPool :
          LET out == ManagerApply(manager, command)
          IN  /\ manager' = out.manager
              /\ last_call' = Called("apply", out)
              /\ history' = IF out.raised = "none"
                            THEN Append(SubSeq(history, 1, Len(manager.undo_stack) + 1),
                                        out.manager.scenario)
                            ELSE history
    /\ UNCHANGED commandFrame

\* manager.undo()
Undo ==
    /\ LET out == ManagerUndo(manager)
       IN  /\ manager' = out.manager
           /\ last_call' = Called("undo", out)
    /\ UNCHANGED <<history, commandFrame>>

\* manager.redo()
Redo ==
    /\ LET out == ManagerRedo(manager)
       IN  /\ manager' = out.manager
           /\ last_call' = Called("redo", out)
    /\ UNCHANGED <<history, commandFrame>>

CommandNext ==
    \/ Apply
    \/ Undo
    \/ Redo

SpecCommands == CommandInit /\ [][CommandNext]_vars

-----------------------------------------------------------------------------
(* app/playback.py and the playback timer of app/main.py                     *)

\* scenario.settings.dt * scenario.settings.steps of the scenario in the editor
DurationPool == {0 - F(1), 0, F(1), F(2), F(64)}
\* _playback_speed, between 0.05 and 5.0
SpeedPool == {F(1) \div 2, F(1), F(2)}
\* the timer interval in seconds
DtWallPool == {2, F(1) \div 2}
\* the times the timeline slider can be dragged to
ScrubPool == {0, F(1), F(32), F(64)}

\* an advance that does not clamp to the duration
advance_playback_time_unclamped(current_time_s, dt_wall_s, playback_speed, duration_s) ==
    LET next_time == RAdd(current_time_s, RMul(dt_wall_s, playback_speed))
    IN  IF duration_s <= 0 THEN 0 ELSE next_time

\* advance_playback_time, lines 4-10
advance_playback_time(current_time_s, dt_wall_s, playback_speed, duration_s) ==
    LET next_time == RAdd(current_time_s, RMul(dt_wall_s, playback_speed))
    IN  IF duration_s <= 0 THEN 0 ELSE Minimum(next_time, duration_s)

\* _set_time, line 453: max(0.0, min(time_s, duration_s))
ScrubTime(t, duration_s) == Maximum(0, Minimum(t, duration_s))

PlaybackInit ==
    /\ SimNotRunning
    /\ SamplingAtRest
    /\ CameraAtRest
    /\ ExportAtRest
    /\ CommandsAtRest
    /\ window = NewWindow
    /\ \E d \in DurationPool, w \in DtWallPool, v \in SpeedPool :
           playback = [NoPlayback EXCEPT !.duration_s = d, !.dt_wall = w, !.speed = v]

playbackFrame == <<simVars, samplingVars, cameraVars, exportVars, commandVars, window>>

\* _on_playback_tick, lines 537-547: the timer fires
PlaybackTick ==
    /\ playback.active
    /\ LET duration_s == playback.duration_s
           t == advance_playback_time(playback.time_s, playback.dt_wall,
                                      playback.speed, duration_s)
       IN  playback' = [playback EXCEPT
               !.before = playback.time_s,
               !.step = RMul(playback.dt_wall, playback.speed),
               !.returned = <<t>>,
               !.active = IF t >= duration_s THEN FALSE ELSE @,
               !.time_s = ScrubTime(t, duration_s)]
    /\ UNCHANGED playbackFrame

\* _toggle_playback, lines 523-535, with a trajectory at hand: the Play button
\* stops a running timer and starts a stopped one
PlaybackToggle ==
    /\ playback' = [playback EXCEPT !.active = ~@]
    /\ UNCHANGED playbackFrame

\* the timeline slider is dragged: _set_time, lines 451-454
PlaybackScrub ==
    /\ \E t \in ScrubPool :
           playback' = [playback EXCEPT !.time_s = ScrubTime(t, playback.duration_s)]
    /\ UNCHANGED playbackFrame

\* _on_speed_changed, lines 598-600
PlaybackSpeedChanged ==
    /\ \E v \in SpeedPool : playback' = [playback EXCEPT !.speed = v]
    /\ UNCHANGED playbackFrame

PlaybackNext ==
    \/ PlaybackTick
    \/ PlaybackToggle
    \/ PlaybackScrub
    \/ PlaybackSpeedChanged

SpecPlayback == PlaybackInit /\ [][PlaybackNext]_vars

-----------------------------------------------------------------------------
(* app/main.py: MainWindow, its command manager and its simulation workers   *)

\* At most MaxWorkers worker threads exist at a time
MaxWorkers == 2

\* the edits made in the window: _add_body, a body dragged in the viewport,
\* _delete_keyframe
WindowCommands ==
    { Command("AddBody", [body |-> Particle(2, F(2), <<F(1), 0, 0>>)]),
      Command("MoveBody", [body_id |-> 1, new_position |-> <<F(5), F(2), 0>>]),
      Command("DeleteCameraKeyframe", [index |-> 0]) }

\* _invalidate_simulation, lines 480-497
invalidate_simulation(w) ==
    [w EXCEPT !.trajectory = <<>>, !.needs_simulation = TRUE,
              !.is_simulating = FALSE, !.timer_active = FALSE]

\* _refresh_ui, lines 202-226, the listener of the manager
refresh_ui(w) == invalidate_simulation(w)

\* should_run_simulation, playback.py lines 13-14
should_run_simulation(needs_simulation, has_trajectory) ==
    needs_simulation \/ ~has_trajectory

\* _run_simulation, lines 549-569: a worker thread is started on the scenario
\* the manager holds
run_simulation_in_thread(w, scenario) ==
    IF w.is_simulating THEN w
    ELSE [w EXCEPT !.timer_active = FALSE, !.run_sim_enabled = FALSE,
                   !.workers = Append(@, [scenario |-> scenario, phase |-> "running"]),
                   !.is_simulating = TRUE]

\* _toggle_playback, lines 523-535
toggle_playback(w, scenario) ==
    IF w.timer_active THEN [w EXCEPT !.timer_active = FALSE]
    ELSE IF should_run_simulation(w.needs_simulation, w.trajectory # <<>>)
         THEN run_simulation_in_thread([w EXCEPT !.auto_play_on_sim_complete = TRUE],
                                       scenario)
         ELSE [w EXCEPT !.timer_active = TRUE]

\* _on_simulation_complete, lines 571-581
on_simulation_complete(w, trajectory_of) ==
    LET held == [w EXCEPT !.trajectory = <<trajectory_of>>, !.needs_simulation = FALSE,
                          !.is_simulating = FALSE]
    IN  IF held.auto_play_on_sim_complete
        THEN [held EXCEPT !.auto_play_on_sim_complete = FALSE, !.timer_active = TRUE]
        ELSE held

\* _on_simulation_error, lines 583-586
on_simulation_error(w) == invalidate_simulation([w EXCEPT !.is_simulating = FALSE])

\* _on_simulation_thread_finished, lines 588-592
on_simulation_thread_finished(w) == [w EXCEPT !.run_sim_enabled = TRUE]

\* the worker at position i has emitted its signal
Emitted(w, i) == [w EXCEPT !.workers[i].phase = "quitting"]

\* a worker may be started: none would be, or there is room for one
RoomFor(w) == w.is_simulating \/ Len(w.workers) < MaxWorkers

WindowInit ==
    /\ SimNotRunning
    /\ SamplingAtRest
    /\ CameraAtRest
    /\ ExportAtRest
    /\ playback = NoPlayback
    /\ manager \in {NewManager(scenario) : scenario \in ScenarioPool}
    /\ history = <<manager.scenario>>
    /\ last_call = NoCall
    /\ window = NewWindow

windowFrame == <<simVars, samplingVars, cameraVars, exportVars, playback>>

\* the Run Simulation action is triggered, line 169
RunSimulation ==
    /\ window.run_sim_enabled
    /\ RoomFor(window)
    /\ window' = run_simulation_in_thread(window, manager.scenario)
    /\ UNCHANGED <<commandVars, windowFrame>>

\* the Play button is clicked, line 131
TogglePlayback ==
    /\ RoomFor(window)
    /\ window' = toggle_playback(window, manager.scenario)
    /\ UNCHANGED <<commandVars, windowFrame>>

\* _on_playback_tick, lines 543-546: the playback reaches the end
PlaybackEnds ==
    /\ window.timer_active
    /\ window' = [window EXCEPT !.timer_active = FALSE]
    /\ UNCHANGED <<commandVars, windowFrame>>

\* an edit of the scenario: manager.apply(command), and _refresh_ui if the
\* listeners are notified
EditApply ==
    /\ Len(manager.undo_stack) < MaxCommands
    /\ \E command \in WindowCommands :
          LET out == ManagerApply(manager, command)
          IN  /\ manager' = out.manager
              /\ last_call' = Called("apply", out)
              /\ history' = IF out.raised = "none"
                            THEN Append(SubSeq(history, 1, Len(manager.undo_stack) + 1),
                                        out.manager.scenario)
                            ELSE history
              /\ window' = IF out.notified THEN refresh_ui(window) ELSE window
    /\ UNCHANGED windowFrame

\* the Undo action, line 159
EditUndo ==
    /\ LET out == ManagerUndo(manager)
       IN  /\ manager' = out.manager
           /\ last_call' = Called("undo", out)
           /\ window' = IF out.notified THEN refresh_ui(window) ELSE window
    /\ UNCHANGED <<history, windowFrame>>

\* the Redo action, line 163
EditRedo ==
    /\ LET out == ManagerRedo(manager)
       IN  /\ manager' = out.manager
           /\ last_call' = Called("redo", out)
           /\ window' = IF out.notified THEN refresh_ui(window) ELSE window
    /\ UNCHANGED <<history, windowFrame>>

\* a worker emits finished(trajectory) and the window receives it; the
\* trajectory is the one of the scenario the worker was constructed on
WorkerFinished ==
    /\ \E i \in 1..Len(window.workers) :
          /\ window.workers[i].phase = "running"
          /\ window' = on_simulation_complete(Emitted(window, i),
                                              [scenario |-> window.workers[i].scenario])
    /\ UNCHANGED <<commandVars, windowFrame>>

\* a worker emits error(message) and the window receives it. What makes
\* run_simulation raise (the settings, the body an event names) is not part of
\* the scenario record, so every worker can take this step.
WorkerError ==
    /\ \E i \in 1..Len(window.workers) :
          /\ window.workers[i].phase = "running"
          /\ window' = on_simulation_error(Emitted(window, i))
    /\ UNCHANGED <<commandVars, windowFrame>>

\* the thread of a worker that has emitted its signal finishes
ThreadFinished ==
    /\ \E i \in 1..Len(window.workers) :
          /\ window.workers[i].phase = "quitting"
          /\ window' = on_simulation_thread_finished(
                           [window EXCEPT !.workers = RemoveAt(@, i)])
    /\ UNCHANGED <<commandVars, windowFrame>>

WindowNext ==
    \/ RunSimulation
    \/ TogglePlayback
    \/ PlaybackEnds
    \/ EditApply
    \/ EditUndo
    \/ EditRedo
    \/ WorkerFinished
    \/ WorkerError
    \/ ThreadFinished

SpecWindow == WindowInit /\ [][WindowNext]_vars

----------------------------------------------------------------------------
(* Claims *)

\* the event list call r was given
EventsOf(r) == CallEvents(r, variant)
\* call r has ended (returned or raised)
Finished(r) == results[r].status # "none"
\* both calls have ended
BothDone == run = 2 /\ pc = "idle"
IsPrefix(s, t) == Len(s) <= Len(t) /\ \A i \in DOMAIN s : s[i] = t[i]
InRange(event) == StepIndexOf(event, config.dt) \in 0..(config.steps - 1)

\* C1: two calls of run_simulation on equal SystemState, event list and config
\* give equal results: while the second call runs, its times, positions,
\* velocities, hashes and camera markers are, sample for sample, those the first
\* call returned, and when it ends it has returned the same result (or raised as
\* the first did).
C1_Determinism ==
    (run = 2 /\ variant.kind = "same") =>
        /\ results[1].status = "returned" =>
              /\ trajectory.body_ids = results[1].trajectory.body_ids
              /\ IsPrefix(trajectory.times, results[1].trajectory.times)
              /\ IsPrefix(trajectory.positions, results[1].trajectory.positions)
              /\ IsPrefix(trajectory.velocities, results[1].trajectory.velocities)
              /\ IsPrefix(hashes, results[1].hashes)
              /\ IsPrefix(camera_markers, results[1].camera_markers)
        /\ pc = "idle" => results[2] = results[1]

C1_Witness ==
    /\ BothDone
    /\ variant.kind = "same"
    /\ results[2].status = "returned"
    /\ Len(results[2].hashes) >= 2
    /\ results[2].camera_markers # <<>>
    /\ \E i \in DOMAIN events : events[i].type = "impulse" /\ InRange(events[i])

\* C2: a returned trajectory has steps + 1 times, positions and velocities,
\* times[i] = i*dt for every i in 0..steps (so times[0] = 0), and every snapshot
\* has one row per body id of the trajectory, the body ids being distinct.
C2_TrajectoryShape ==
    \A r \in 1..2 :
        (results[r].status = "returned" /\ config.dt > 0) =>
            LET t == results[r].trajectory
            IN  /\ Len(t.times) = config.steps + 1
                /\ Len(t.positions) = config.steps + 1
                /\ Len(t.velocities) = config.steps + 1
                /\ \A i \in 0..config.steps : t.times[i + 1] = i * config.dt
                /\ \A i \in 1..(config.steps + 1) :
                      /\ Len(t.positions[i]) = Len(t.body_ids)
                      /\ Len(t.velocities[i]) = Len(t.body_ids)
                /\ \A a, b \in DOMAIN t.body_ids :
                      t.body_ids[a] = t.body_ids[b] => a = b

C2_Witness ==
    /\ results[1].status = "returned"
    /\ config.steps >= 2
    /\ Len(results[1].trajectory.body_ids) = 2
    /\ Len(all_bodies(state)) = 3
    /\ events # <<>>

\* the events of the current step, in schedule order
StepEvents == events_at(schedule, step_index)
\* the sample recorded last
LastPositions == trajectory.positions[Len(trajectory.positions)]
LastVelocities == trajectory.velocities[Len(trajectory.velocities)]

\* the sum of the delta_v of the impulses of evs on body bid
RECURSIVE ImpulseSum(_, _)
ImpulseSum(evs, bid) ==
    IF evs = <<>> THEN Zero3
    ELSE VAdd(IF Head(evs).type = "impulse" /\ Head(evs).body_id = bid
              THEN Head(evs).delta_v ELSE Zero3,
              ImpulseSum(Tail(evs), bid))

\* the markers of the camera-marker events of evs, in the order of evs
RECURSIVE MarkersOf(_)
MarkersOf(evs) ==
    IF evs = <<>> THEN <<>>
    ELSE (IF Head(evs).type = "camera_marker"
          THEN <<[time |-> Head(evs).time, label |-> Head(evs).label]>> ELSE <<>>)
         \o MarkersOf(Tail(evs))

\* the markers of the steps 0..k, by step and inside a step in schedule order
RECURSIVE MarkersUpTo(_)
MarkersUpTo(k) ==
    IF k < 0 THEN <<>> ELSE MarkersUpTo(k - 1) \o MarkersOf(events_at(schedule, k))

\* the two returned trajectories and hash lists agree on the samples 0..k
SamplesAgreeUpTo(k) ==
    \A i \in 1..(k + 1) :
        /\ results[1].trajectory.times[i] = results[2].trajectory.times[i]
        /\ results[1].trajectory.positions[i] = results[2].trajectory.positions[i]
        /\ results[1].trajectory.velocities[i] = results[2].trajectory.velocities[i]
        /\ config.record_hashes => results[1].hashes[i] = results[2].hashes[i]

\* call 2 ran without the last event of the caller's list, and both calls returned
DroppedEvent == events[variant.index]
BothReturnedAfterDrop ==
    /\ BothDone
    /\ variant.kind = "drop"
    /\ results[1].status = "returned"
    /\ results[2].status = "returned"

\* C3: in iteration k the driver records sample k (and its hash) first, then
\* applies the events of step k in schedule order, then computes the
\* acceleration from the updated velocities and thrusts, then integrates: while
\* events are applied, forces computed or the step integrated, sample k is
\* recorded and nothing later; the positions are still those of sample k; once
\* the events are through, the velocities are those of sample k plus the
\* impulses of the step and the marker list holds the markers of steps 0..k in
\* schedule order; the acceleration integrated is the one of that updated
\* state.  An event of step k changes none of the samples 0..k: a run without
\* it returns the same samples 0..k.
C3_StepOrder ==
    /\ pc \in {"events", "forces", "integrate"} =>
          /\ Len(trajectory.times) = step_index + 1
          /\ config.record_hashes => Len(hashes) = step_index + 1
          /\ positions = LastPositions
    /\ pc = "events" =>
          /\ \A i \in DOMAIN order : velocities[i] =
                VAdd(LastVelocities[i],
                     ImpulseSum(SubSeq(StepEvents, 1, event_pos - 1), order[i]))
          /\ camera_markers =
                MarkersUpTo(step_index - 1)
                \o MarkersOf(SubSeq(StepEvents, 1, event_pos - 1))
    /\ pc \in {"forces", "integrate"} =>
          /\ \A i \in DOMAIN order : velocities[i] =
                VAdd(LastVelocities[i], ImpulseSum(StepEvents, order[i]))
          /\ camera_markers = MarkersUpTo(step_index)
    /\ pc = "integrate" =>
          acceleration = TotalAcceleration(positions, velocities, thrusts, masses, config)
    /\ (BothReturnedAfterDrop /\ InRange(DroppedEvent)) =>
          SamplesAgreeUpTo(StepIndexOf(DroppedEvent, config.dt))

C3_Witness ==
    /\ pc = "integrate"
    /\ step_index = 1
    /\ config.drag_coefficient > 0
    /\ \E i \in DOMAIN StepEvents :
          StepEvents[i].type = "impulse" /\ StepEvents[i].body_id \in Range(order)
    /\ \E i \in DOMAIN StepEvents : StepEvents[i].type = "thrust_change"

\* a Impulse or ThrustChange event of the list names a body the state does not hold
UnknownBodyEvents(evs) ==
    {i \in DOMAIN evs : /\ evs[i].type \in {"impulse", "thrust_change"}
                        /\ evs[i].body_id \notin DOMAIN collect_bodies(state)}

\* C4 as claimed: whenever the event list holds an Impulse or ThrustChange event
\* for an unknown body, whatever its time, the call raises and returns nothing.
C4_AbortsWhateverTheTime ==
    \A r \in 1..2 :
        (Finished(r) /\ config.steps > 0 /\ UnknownBodyEvents(EventsOf(r)) # {}) =>
            results[r] = Raised

\* C4, amended: the call raises the lookup failure, returning no trajectory, no
\* hashes and no markers, exactly when the event list holds an Impulse or
\* ThrustChange event for an unknown body whose step index round(time/dt) is
\* one of 0..steps-1; such an event is never passed over, and an event for an
\* unknown body outside that range is never looked up.
C4_AbortsWhenScheduledInRange ==
    \A r \in 1..2 :
        Finished(r) =>
            IF \E i \in UnknownBodyEvents(EventsOf(r)) : InRange(EventsOf(r)[i])
            THEN results[r] = Raised
            ELSE results[r].status = "returned"

\* a call that raised at step 1, after two samples were recorded
C4_Witness ==
    /\ results[1] = Raised
    /\ run = 1
    /\ step_index = 1
    /\ Len(trajectory.times) = 2
    /\ Len(events) = 2

\* k is the integer nearest to the float q, the even one of two equally near
IsRoundOf(k, q) ==
    LET d == IF q >= k * Scale THEN q - k * Scale ELSE k * Scale - q
    IN  2 * d <= Scale /\ (2 * d = Scale => k % 2 = 0)

Count(s, e) == Cardinality({i \in DOMAIN s : s[i] = e})

\* C5: the schedule built of the event list of the call puts every event in
\* exactly one group, the group of the key round(event.time/dt), as often as
\* the list holds it; the groups hold nothing else and none is empty; every
\* group is in ascending id order, events of equal id in list order; events_at
\* gives the group of a key and the empty list for any other step index.
C5_Schedule ==
    run >= 1 =>
        LET evs == EventsOf(run)
        IN  /\ \A i \in DOMAIN evs :
                  \E k \in DOMAIN schedule :
                      /\ IsRoundOf(k, FDiv(evs[i].time, config.dt))
                      /\ Count(schedule[k], evs[i]) = Count(evs, evs[i])
                      /\ \A j \in DOMAIN schedule \ {k} : Count(schedule[j], evs[i]) = 0
            /\ \A k \in DOMAIN schedule :
                  /\ schedule[k] # <<>>
                  /\ Range(schedule[k]) \subseteq Range(evs)
                  /\ \A a, b \in DOMAIN schedule[k] :
                        a < b => schedule[k][a].id <= schedule[k][b].id
                  /\ \A a, b \in DOMAIN schedule[k] :
                        (a < b /\ schedule[k][a].id = schedule[k][b].id) =>
                            \E i, j \in DOMAIN evs :
                                i <= j /\ evs[i] = schedule[k][a] /\ evs[j] = schedule[k][b]
                  /\ events_at(schedule, k) = schedule[k]
            /\ \A k \in (-MaxSteps - 2)..(MaxSteps + 2) :
                  k \notin DOMAIN schedule => events_at(schedule, k) = <<>>

\* a group of two events that the list holds in descending id order
C5_Witness ==
    /\ run = 1
    /\ Len(events) = 2
    /\ events[1].id > events[2].id
    /\ \E k \in DOMAIN schedule : schedule[k] = <<events[2], events[1]>>
    /\ events[1].time # events[2].time

\* the event the loop over the events of the step is at
CurrentEvent == StepEvents[event_pos]
\* the driver is about to apply an event of the given type to a body it holds
Applying(type) ==
    /\ pc = "events"
    /\ event_pos \in DOMAIN StepEvents
    /\ CurrentEvent.type = type
    /\ CurrentEvent.body_id \in Range(order)
CurrentIndex == IdToIndex(order)[CurrentEvent.body_id]

\* the step that applies an impulse adds delta_v to the velocity of the named
\* body and changes no other velocity, no position, thrust, mass or sample
C6_ImpulseStep ==
    Applying("impulse") =>
        /\ velocities' = [velocities EXCEPT ![CurrentIndex] = VAdd(@, CurrentEvent.delta_v)]
        /\ UNCHANGED <<positions, thrusts, masses, trajectory, hashes, acceleration>>
        /\ pc' = "events"

\* the velocities of sample k plus, for every body, the impulses of step k on it
VelocitiesAfterImpulses ==
    [i \in DOMAIN order |-> VAdd(LastVelocities[i], ImpulseSum(StepEvents, order[i]))]

\* C6: applying an Impulse event at step k adds delta_v to the velocity of
\* exactly the named body and leaves all other velocities, all positions,
\* thrusts and masses unchanged; it happens before the acceleration of step k
\* is computed, which is the acceleration of the velocities with the impulses
\* in; the impulses of one step on one body add up.
C6_Impulse ==
    /\ [][C6_ImpulseStep]_vars
    /\ [](pc \in {"forces", "integrate"} => velocities = VelocitiesAfterImpulses)
    /\ [](pc = "integrate" =>
            acceleration = TotalAcceleration(positions, VelocitiesAfterImpulses,
                                             thrusts, masses, config))

\* two impulses on one body in one step have been applied
C6_Witness ==
    /\ pc = "forces"
    /\ Len(order) = 2
    /\ \E a, b \in DOMAIN StepEvents :
          /\ a < b
          /\ StepEvents[a].type = "impulse" /\ StepEvents[b].type = "impulse"
          /\ StepEvents[a].body_id = StepEvents[b].body_id
          /\ StepEvents[a].body_id \in Range(order)
          /\ StepEvents[a].delta_v # StepEvents[b].delta_v

\* the thrust changes of evs for body bid, in the order of evs
RECURSIVE ThrustChangesFor(_, _)
ThrustChangesFor(evs, bid) ==
    IF evs = <<>> THEN <<>>
    ELSE (IF Head(evs).type = "thrust_change" /\ Head(evs).body_id = bid
          THEN <<Head(evs).thrust>> ELSE <<>>)
         \o ThrustChangesFor(Tail(evs), bid)

\* the thrust of the last ThrustChange for body bid scheduled at a step 0..k,
\* or the thrust the body has in the SystemState
RECURSIVE LatestThrust(_, _)
LatestThrust(bid, k) ==
    IF k < 0 THEN collect_bodies(state)[bid].thrust
    ELSE LET changes == ThrustChangesFor(events_at(schedule, k), bid)
         IN  IF changes # <<>> THEN changes[Len(changes)] ELSE LatestThrust(bid, k - 1)

\* the step that applies a thrust change replaces the thrust of the named body
\* and changes no other thrust, no position, velocity or sample
C7_ThrustStep ==
    Applying("thrust_change") =>
        /\ thrusts' = [thrusts EXCEPT ![CurrentIndex] = CurrentEvent.thrust]
        /\ UNCHANGED <<positions, velocities, masses, trajectory, hashes>>

\* inside a call, a thrust changes only by a thrust change for its body
C7_ThrustKept ==
    run' = run =>
        \A i \in DOMAIN thrusts :
            thrusts'[i] # thrusts[i] =>
                Applying("thrust_change") /\ CurrentEvent.body_id = order[i]

\* C7: a ThrustChange for body b applied at step k replaces b's thrust and
\* changes no position, no velocity, no other body's thrust and no sample; the
\* thrust used for b's acceleration at step k and at every later step is the
\* thrust of the last ThrustChange applied for b so far (the body's own thrust
\* before the first); the samples 0..k are those of the run without the event.
C7_ThrustChange ==
    /\ [][C7_ThrustStep /\ C7_ThrustKept]_vars
    /\ [](pc = "integrate" =>
            /\ thrusts = [i \in DOMAIN order |-> LatestThrust(order[i], step_index)]
            /\ acceleration =
                  TotalAcceleration(positions, velocities,
                                    [i \in DOMAIN order |-> LatestThrust(order[i], step_index)],
                                    masses, config))
    /\ []((BothReturnedAfterDrop /\ DroppedEvent.type = "thrust_change"
            /\ InRange(DroppedEvent)) =>
            SamplesAgreeUpTo(StepIndexOf(DroppedEvent, config.dt)))

\* at step 1 the thrust set at step 0 is still in force
C7_Witness ==
    /\ pc = "integrate"
    /\ step_index = 1
    /\ \E i \in DOMAIN order :
          /\ ThrustChangesFor(events_at(schedule, 0), order[i]) # <<>>
          /\ ThrustChangesFor(events_at(schedule, 1), order[i]) = <<>>
          /\ thrusts[i] # collect_bodies(state)[order[i]].thrust
    /\ Len(order) = 2

\* C8: a run and the same run without the CameraMarker events of its list end
\* alike (both return or both raise) with the same times, positions,
\* velocities and hashes; only the camera_markers list differs.
C8_MarkersNoEffect ==
    (BothDone /\ variant.kind = "no_markers") =>
        /\ results[2].status = results[1].status
        /\ results[2].trajectory = results[1].trajectory
        /\ results[2].hashes = results[1].hashes
        /\ results[2].camera_markers = <<>>

\* a run with a marker and an event of another type in one step
C8_Witness ==
    /\ BothDone
    /\ variant.kind = "no_markers"
    /\ results[1].status = "returned"
    /\ results[1].camera_markers # <<>>
    /\ results[1].hashes # <<>>
    /\ \E i, j \in DOMAIN events :
          /\ events[i].type = "camera_marker" /\ events[j].type # "camera_marker"
          /\ StepIndexOf(events[i], config.dt) = StepIndexOf(events[j], config.dt)
          /\ InRange(events[i])
          /\ events[i].id < events[j].id

\* the hashes are those of the recorded samples
HashesMatch(hs, traj) ==
    /\ Len(hs) = Len(traj.times)
    /\ \A i \in DOMAIN hs :
          hs[i] = <<i - 1>> \o Flatten(traj.positions[i]) \o Flatten(traj.velocities[i])

\* C9: with record_hashes on there is one hash per recorded sample, hashes[i]
\* being the digest of i followed by the positions and the velocities of sample
\* i, row by row in column order (the state before the events of step i), and
\* a returned result holds steps + 1 of them; with record_hashes off the hash
\* list is empty.
C9_Hashes ==
    /\ (config.record_hashes /\ run >= 1) => HashesMatch(hashes, trajectory)
    /\ ~config.record_hashes => hashes = <<>>
    /\ \A r \in 1..2 :
          results[r].status = "returned" =>
              IF config.record_hashes
              THEN /\ Len(results[r].hashes) = config.steps + 1
                   /\ HashesMatch(results[r].hashes, results[r].trajectory)
              ELSE results[r].hashes = <<>>

C9_Witness ==
    /\ results[1].status = "returned"
    /\ config.record_hashes
    /\ Len(results[1].hashes) = 3
    /\ Len(order) = 2
    /\ \E i \in DOMAIN events : events[i].type = "impulse" /\ InRange(events[i])

\* inside a call the trajectory only grows, by one sample at a time
C10_AppendStep ==
    run' = run =>
        /\ trajectory'.body_ids = trajectory.body_ids
        /\ IsPrefix(trajectory.times, trajectory'.times)
        /\ IsPrefix(trajectory.positions, trajectory'.positions)
        /\ IsPrefix(trajectory.velocities, trajectory'.velocities)
        /\ Len(trajectory'.times) <= Len(trajectory.times) + 1
        /\ (positions' # positions \/ velocities' # velocities) =>
               trajectory' = trajectory

\* C10: during a call every loop iteration appends exactly one sample (k
\* samples are recorded when iteration k begins, k + 1 from its record on), the
\* sample times are strictly increasing, and a recorded sample is never changed
\* afterwards: every step of the driver leaves the recorded samples as they are,
\* the events and the integrator changing the working arrays only.
C10_AppendOnly ==
    /\ [][C10_AppendStep]_vars
    /\ [](pc = "record" => Len(trajectory.times) = step_index)
    /\ [](pc \in {"events", "forces", "integrate", "return"} =>
            Len(trajectory.times) = step_index + 1)
    /\ [](\A i, j \in DOMAIN trajectory.times :
            i < j => trajectory.times[i] < trajectory.times[j])
    /\ [](/\ Len(trajectory.positions) = Len(trajectory.times)
          /\ Len(trajectory.velocities) = Len(trajectory.times))

\* three samples, the first still the state the call began with
C10_Witness ==
    /\ pc = "return"
    /\ Len(trajectory.times) = 3
    /\ trajectory.positions[1] # positions
    /\ trajectory.positions[1] # trajectory.positions[2]
    /\ trajectory.velocities[2] # trajectory.velocities[3]
    /\ trajectory.positions[1] =
          [i \in DOMAIN order |-> collect_bodies(state)[order[i]].position]

\* C11: run_simulation does not change its inputs: no step of a call, completed
\* or aborted, changes the SystemState, the caller's event list (its elements
\* and their order) or the SimulationConfig; the schedule sorts its own lists
\* and the events write the working arrays only.
C11_InputsUnchanged ==
    [][/\ state' = state
       /\ events' = events
       /\ config' = config]_vars

\* call 1 was handed a list that is not in id order, applied an impulse to the
\* working velocities and then aborted
C11_Witness ==
    /\ run = 1
    /\ results[1] = Raised
    /\ Len(events) = 2
    /\ events[1].id > events[2].id
    /\ velocities #
          [i \in DOMAIN order |-> collect_bodies(state)[order[i]].velocity]

\* render_video has ended: it returned or an exception left it
RenderEnded == render_pc \in {"returned", "raised"}

\* C12: the encoder is released on every exit path: whenever render_video has
\* ended and the encoder was spawned, its input channel is closed and the
\* process has been awaited.
C12_EncoderReleased ==
    (RenderEnded /\ process.spawned > 0) =>
        (process.stdin = "closed" /\ process.waited)

\* the positions of the log that hold a call `op'
LogPositions(op) == {i \in DOMAIN log : log[i].op = op}

\* C13: when no frame raises, exactly frame_count = round(duration_s * fps)
\* frames are written, in the order 0..frame_count - 1, frame i for the time
\* i/fps (the grid value nearest to it); every write is before the close, the close before the wait, and the
\* exit status is checked only after the wait: the calls on the encoder are the
\* spawn, then the writes of the frames 0, 1, ... in order, and the close comes
\* right after the write of frame frame_count - 1, the wait right after the
\* close, the check right after the wait.
C13_FramesInOrder ==
    /\ render_pc \notin {"idle", "raised"} =>
          /\ IsRoundOf(frame_count, job.duration_s * job.fps)
          /\ Cardinality(LogPositions("write")) = frame_index
    /\ \A i \in DOMAIN log :
          /\ (i = 1) = (log[i].op = "spawn")
          /\ log[i].op = "write" =>
                /\ log[i].frame = i - 2
                /\ log[i].frame \in 0..(frame_count - 1)
                /\ LET d == log[i].time_s * job.fps - log[i].frame * Scale
                   IN  2 * d <= job.fps /\ -2 * d <= job.fps
                /\ i > 2 => log[i - 1].op = "write"
          /\ log[i].op = "close" =>
                /\ i = frame_count + 2
                /\ \A k \in 2..(i - 1) : log[k].op = "write"
          /\ log[i].op = "wait" => log[i - 1].op = "close"
          /\ log[i].op = "check" => log[i - 1].op = "wait"
    /\ (LogPositions("close") # {} \/ render_pc = "returned") =>
          Cardinality(LogPositions("write")) = frame_count

\* a job of 0.5 s at 3 frames per second returned after its 2 frames (1.5 is
\* rounded to the even 2), written for the times 0 and 1/3
C13_Witness ==
    /\ render_pc = "returned"
    /\ job.fps = 3
    /\ job.duration_s = Scale \div 2
    /\ frame_count = 2
    /\ Len(log) = 6
    /\ log[3].op = "write" /\ log[3].time_s > 0

\* C14: once all frames are written and the encoder has been awaited,
\* render_video returns normally exactly if the exit code is 0, and raises a
\* failure carrying the exit code if it is not; the encoder is spawned once,
\* never again after a failure.
C14_ExitCode ==
    /\ process.spawned <= 1
    /\ Cardinality(LogPositions("spawn")) = process.spawned
    /\ render_pc = "returned" =>
          /\ process.waited
          /\ process.returncode = 0
          /\ failure = NoFailure
          /\ frame_index = frame_count
    /\ (RenderEnded /\ process.waited) =>
          /\ frame_index = frame_count
          /\ (render_pc = "returned") = (process.returncode = 0)
          /\ process.returncode # 0 =>
                /\ render_pc = "raised"
                /\ failure = [error |-> "RuntimeError", code |-> process.returncode]

\* all frames of a job were written and the encoder, killed by a signal, left
\* a negative exit code
C14_Witness ==
    /\ render_pc = "raised"
    /\ frame_count = 3
    /\ frame_index = 3
    /\ process.waited
    /\ process.returncode = -9
    /\ failure.code = -9

\* The reference of evaluate.  In ascending time order the first keyframe is
\* the one of least time, the earliest in the list among several; the last is
\* the one of greatest time, the latest in the list among several.
EarliestOf(kfs, I) ==
    kfs[CHOOSE i \in I : \A j \in I :
            kfs[i].time_s < kfs[j].time_s \/ (kfs[i].time_s = kfs[j].time_s /\ i <= j)]
LatestOf(kfs, I) ==
    kfs[CHOOSE i \in I : \A j \in I :
            kfs[j].time_s < kfs[i].time_s \/ (kfs[i].time_s = kfs[j].time_s /\ j <= i)]

\* the pose a keyframe stands for in the track
PoseOf(trk, k) ==
    [position |-> k.position, target |-> k.target,
     fov_deg |-> IF k.fov_deg = <<>> THEN trk.default_fov_deg ELSE k.fov_deg[1]]

\* left + (right - left) * (time - t_left) / (t_right - t_left) in floats, the
\* time span t_right - t_left taken as `floor' if it is less
Between(left, right, t_left, t_right, time, floor) ==
    LET span == RoundSig(t_right - t_left)
        u == RoundSig(FDiv(RoundSig(time - t_left), IF span < floor THEN floor ELSE span))
    IN  RoundSig(left + RoundSig(FMul(RoundSig(right - left), u)))

ReferencePose(trk, time, floor) ==
    LET kfs == trk.keyframes
        first == EarliestOf(kfs, DOMAIN kfs)
        last == LatestOf(kfs, DOMAIN kfs)
    IN  IF time <= first.time_s THEN PoseOf(trk, first)
        ELSE IF time >= last.time_s THEN PoseOf(trk, last)
        ELSE LET left == PoseOf(trk, LatestOf(kfs, {i \in DOMAIN kfs : kfs[i].time_s < time}))
                 right == PoseOf(trk, EarliestOf(kfs, {i \in DOMAIN kfs : kfs[i].time_s >= time}))
                 tl == LatestOf(kfs, {i \in DOMAIN kfs : kfs[i].time_s < time}).time_s
                 tr == EarliestOf(kfs, {i \in DOMAIN kfs : kfs[i].time_s >= time}).time_s
             IN  [position |-> [c \in 1..3 |->
                                  Between(left.position[c], right.position[c], tl, tr, time, floor)],
                  target |-> [c \in 1..3 |->
                                  Between(left.target[c], right.target[c], tl, tr, time, floor)],
                  fov_deg |-> Between(left.fov_deg, right.fov_deg, tl, tr, time, floor)]

\* C15 as stated: for a track with at least one keyframe and any query time,
\* evaluate returns the reference: the pose of the first keyframe in time
\* order at or before its time, the pose of the last at or after its time, and
\* between them left + (right - left)*(time - t_left)/(t_right - t_left) for
\* position, target and fov of the consecutive keyframes that bracket the
\* time, a keyframe without a fov counting with the default fov of the track.
C15_EvaluateReference ==
    (camera # NoCamera /\ track.keyframes # <<>>) =>
        /\ camera = ReferencePose(track, time_s, 0)
        /\ camera_shuffled = ReferencePose(shuffled, time_s, 0)

\* C15, amended: as above, with the fraction (time - t_left)/max(t_right -
\* t_left, 1e-9): between two keyframes less than 1e-9 apart the time span is
\* taken as 1e-9.
C15_EvaluateReferenceFloored ==
    (camera # NoCamera /\ track.keyframes # <<>>) =>
        /\ camera = ReferencePose(track, time_s, Epsilon)
        /\ camera_shuffled = ReferencePose(shuffled, time_s, Epsilon)

\* the example: keyframes at t = 0 and t = 10 with x 0 and 10, fov 60 and 90,
\* listed with the later one first, evaluated at t = 5
C15_Witness ==
    /\ Len(track.keyframes) = 2
    /\ track.keyframes[1].time_s = F(10)
    /\ track.keyframes[2].time_s = 0
    /\ time_s = F(5)
    /\ camera = CameraState(<<F(5), 0, F(10)>>, Zero3, F(75))

\* the keyframes of a list that have the time t, in list order
RECURSIVE AtTime(_, _)
AtTime(kfs, t) ==
    IF kfs = <<>> THEN <<>>
    ELSE (IF Head(kfs).time_s = t THEN <<Head(kfs)>> ELSE <<>>) \o AtTime(Tail(kfs), t)

\* the two tracks hold the keyframes of each time in the same relative order
SameOrderAtEqualTimes ==
    \A i \in DOMAIN track.keyframes :
        AtTime(track.keyframes, track.keyframes[i].time_s)
            = AtTime(shuffled.keyframes, track.keyframes[i].time_s)

\* C16 as stated: two tracks that hold the same keyframes in different list
\* orders evaluate to the same CameraState at every query time.
C16_OrderIrrelevant ==
    camera # NoCamera => camera_shuffled = camera

\* C16, amended: two tracks that hold the same keyframes in different list
\* orders, the keyframes of equal time in the same relative order in both
\* (so whenever all keyframe times differ), evaluate to the same CameraState at
\* every query time.
C16_OrderIrrelevantUpToTies ==
    (camera # NoCamera /\ SameOrderAtEqualTimes) => camera_shuffled = camera

\* three keyframes of different times, held in two different orders, queried
\* between two of them
C16_Witness ==
    /\ Len(track.keyframes) = 3
    /\ \A i, j \in 1..3 : i # j => track.keyframes[i].time_s # track.keyframes[j].time_s
    /\ shuffled.keyframes[1] = track.keyframes[3]
    /\ shuffled.keyframes[3] = track.keyframes[1]
    /\ track.keyframes[1].time_s > track.keyframes[2].time_s
    /\ time_s = F(3)
    /\ camera # NoCamera
    /\ camera = camera_shuffled

\* C17: evaluate is a pure query: a step that evaluates leaves the keyframe
\* list (elements and stored order) and the default fov of the track as they
\* are, and between two edits every evaluate at the time of the first one
\* returns what the first one returned.
C17_PureQuery ==
    /\ [][camera' # NoCamera => (track' = track /\ shuffled' = shuffled)]_vars
    /\ [](last_query.asked /\ last_query.time_s = time_s => camera = last_query.camera)

\* the track holds its keyframes out of time order and was evaluated at 3
\* once and, with no edit since, again
C17_Witness ==
    /\ Len(track.keyframes) = 3
    /\ track.keyframes[1].time_s > track.keyframes[2].time_s
    /\ last_query.asked
    /\ last_query.repeated
    /\ last_query.time_s = F(3)
    /\ time_s = F(3)
    /\ camera = last_query.camera
    /\ track.keyframes # SortByTime(track.keyframes)

\* The reference of sample_trajectory for a time inside the recorded span: the
\* first index whose time is at or after the query time, and the formula
FirstAtOrAfter(times, time) ==
    CHOOSE i \in DOMAIN times :
        /\ times[i] >= time
        /\ \A j \in DOMAIN times : times[j] >= time => i <= j

ReferenceSample(traj, time, floor) ==
    LET n == Len(traj.times)
    IN  IF n = 0 THEN <<>>
        ELSE IF time <= traj.times[1] THEN traj.positions[1]
        ELSE IF time >= traj.times[n] THEN traj.positions[n]
        ELSE LET idx == FirstAtOrAfter(traj.times, time)
             IN  [b \in DOMAIN traj.body_ids |->
                    [axis \in 1..3 |->
                       Between(traj.positions[idx - 1][b][axis], traj.positions[idx][b][axis],
                               traj.times[idx - 1], traj.times[idx], time, floor)]]

\* a query has been made of the recorded trajectory
Sampled == recorded.times = <<>> \/ sampled # <<>>

\* sample_trajectory returns the reference, as stated and with the time span
\* of the fraction taken as max(times[idx] - times[idx-1], 1e-9)
C18_Formula == Sampled => sampled = ReferenceSample(recorded, time_s, 0)
C18_FormulaFloored == Sampled => sampled = ReferenceSample(recorded, time_s, Epsilon)

\* at a recorded time it returns the positions of that sample
C18_ExactAtRecordedTimes ==
    Sampled => \A i \in DOMAIN recorded.times :
                  recorded.times[i] = time_s => sampled = recorded.positions[i]

\* C18 as stated: on a trajectory with increasing times sample_trajectory
\* returns the first positions at or before the first time, the last at or
\* after the last time, and otherwise the interpolation left + (right - left)
\* * (time - times[idx-1]) / (times[idx] - times[idx-1]) at the first idx with
\* times[idx] >= time, for every body and axis; so at a recorded time it
\* returns that sample's positions; for an empty trajectory the empty list.
C18_SampleReference == C18_Formula /\ C18_ExactAtRecordedTimes

\* C18, amended: sample_trajectory returns the reference as above with the
\* fraction (time - times[idx-1]) / max(times[idx] - times[idx-1], 1e-9); at
\* the first and at the last recorded time it returns that sample's positions
\* as recorded, and at a recorded time in between, 1e-9 or more after the
\* sample before, the float value of left + (right - left) * 1.0, which is
\* that sample's positions whenever the difference right - left is a float; it
\* never changes the trajectory.
C18_SampleReferenceRounded ==
    /\ [](C18_FormulaFloored)
    /\ [](Sampled => \A i \in DOMAIN recorded.times :
            recorded.times[i] = time_s =>
                \A b \in DOMAIN sampled : \A axis \in 1..3 :
                    LET left == recorded.positions[Maximum(i - 1, 1)][b][axis]
                        right == recorded.positions[i][b][axis]
                        span == recorded.times[i] - recorded.times[Maximum(i - 1, 1)]
                    IN  (\/ i = 1
                         \/ i = Len(recorded.times)
                         \/ span >= Epsilon /\ RoundSig(right - left) = right - left)
                            => sampled[b][axis] = right)
    /\ [][recorded' = recorded]_vars

\* the example: samples at t = 0 (x = 0) and t = 1 (x = 2) and a later one,
\* two bodies, sampled at t = 0.5, where x is 1
C18_Witness ==
    /\ Len(recorded.times) = 3
    /\ Len(recorded.body_ids) = 2
    /\ recorded.times[1] = 0 /\ recorded.times[2] = F(1)
    /\ recorded.positions[1][1] = Zero3
    /\ recorded.positions[2][1] = <<F(2), 0, 0>>
    /\ time_s = Scale \div 2
    /\ sampled = << <<F(1), 0, 0>>, <<F(1), F(1), 0>> >>

\* C19: sample_index returns 0 when n <= 0 or dt*max(sample_every, 1) <= 0,
\* and otherwise the integer nearest to time/(dt*max(sample_every, 1)), the
\* even one of two, clamped into [0, n - 1]; for n > 0 the result is a valid
\* index of a trajectory of n samples.
C19_SampleIndex ==
    LET a == index_args
        step == RoundSig(a.dt * (IF a.sample_every > 1 THEN a.sample_every ELSE 1))
    IN  /\ (a.num_samples <= 0 \/ step <= 0) => index = 0
        /\ (a.num_samples > 0 /\ step > 0) =>
              \E k \in -200..200 :
                  /\ IsRoundOf(k, RoundSig(FDiv(a.time_s, step)))
                  /\ index = (IF k < 0 THEN 0
                              ELSE IF k > a.num_samples - 1 THEN a.num_samples - 1 ELSE k)
        /\ a.num_samples > 0 => index \in 0..(a.num_samples - 1)

\* the example: 5 samples, dt = 1, sample_every = 2; the time 9 is index 4,
\* the tie 4.5 rounded to the even 4
C19_Witness ==
    /\ index_args = [time_s |-> F(9), dt |-> F(1), sample_every |-> 2, num_samples |-> 5]
    /\ index = 4

\* the total momentum of sample k of the trajectory: the sum over the columns
\* of mass * velocity
RECURSIVE MomentumFrom(_, _)
MomentumFrom(vel, i) ==
    IF i > Len(vel) THEN Zero3
    ELSE VAdd(VMul(vel[i], masses[i]), MomentumFrom(vel, i + 1))
Momentum(k) == MomentumFrom(trajectory.velocities[k], 1)

\* a run under gravity alone: no drag, no thrust on any body, and no event
\* that changes a velocity or a thrust
GravityOnly ==
    /\ config.drag_coefficient = 0
    /\ \A i \in DOMAIN state.particles : state.particles[i].thrust = Zero3
    /\ \A i \in DOMAIN state.rigid_bodies : state.rigid_bodies[i].thrust = Zero3
    /\ \A i \in DOMAIN CallEvents(run, variant) :
           CallEvents(run, variant)[i].type = "camera_marker"

\* C20: in a run with zero drag, zero thrust on every body and no Impulse or
\* ThrustChange event, the total momentum is the same at every recorded sample
\* as at sample 0; each component may differ by the rounding of the velocity
\* updates, one grid unit for each body and step.
C20_MomentumConserved ==
    GravityOnly =>
        \A k \in DOMAIN trajectory.velocities : \A c \in 1..3 :
            LET d == Momentum(k)[c] - Momentum(1)[c]
                tolerance == (k - 1) * Len(order)
            IN  d <= tolerance /\ -d <= tolerance

\* the sum of the delta_v of the impulses of a list of events for one body,
\* added in the order of the list
RECURSIVE DeltaVSum(_, _)
DeltaVSum(evs, body_id) ==
    IF evs = <<>> THEN Zero3
    ELSE LET rest == DeltaVSum(SubSeq(evs, 1, Len(evs) - 1), body_id)
             last == evs[Len(evs)]
         IN  IF last.type = "impulse" /\ last.body_id = body_id
             THEN VAdd(rest, last.delta_v) ELSE rest

\* sample k + 1 is the last sample recorded and `acceleration' is still the
\* acceleration of step k
LastStepVisible ==
    /\ pc \in {"events", "forces", "return"}
    /\ step_index >= 1
    /\ Len(trajectory.times) = step_index + 1

\* C24: between consecutive samples k and k + 1 of a run, for every body,
\* positions[k+1] = positions[k] + velocities[k+1]*dt (the position moves by
\* the updated velocity), and velocities[k+1] = (velocities[k] + the delta_v
\* of the impulses applied at step k to the body) + acceleration*dt.
C24_SemiImplicitEuler ==
    /\ \A k \in 1..(Len(trajectory.positions) - 1) : \A i \in DOMAIN order :
           trajectory.positions[k + 1][i] =
               VAdd(trajectory.positions[k][i],
                    VMul(trajectory.velocities[k + 1][i], config.dt))
    /\ LastStepVisible =>
           \A i \in DOMAIN order :
               trajectory.velocities[step_index + 1][i] =
                   VAdd(VAdd(trajectory.velocities[step_index][i],
                             DeltaVSum(events_at(schedule, step_index - 1), order[i])),
                        VMul(acceleration[i], config.dt))

\* a run of two steps in which an impulse was applied to body 1 at step 1 and
\* the body has moved since
C24_Witness ==
    /\ LastStepVisible
    /\ step_index = 2
    /\ \E i \in DOMAIN events_at(schedule, 1) :
           /\ events_at(schedule, 1)[i].type = "impulse"
           /\ events_at(schedule, 1)[i].body_id = 1
    /\ 1 \in Range(order)
    /\ trajectory.positions[3][1] # trajectory.positions[2][1]
    /\ trajectory.velocities[3][1] # trajectory.velocities[2][1]

\* the ids of the caller's events are pairwise different
UniqueEventIds == \A i, j \in DOMAIN events : events[i].id = events[j].id => i = j

\* both calls are over
BothCallsOver == results[1].status # "none" /\ results[2].status # "none"

\* C25: with unique event ids the result of run_simulation does not depend on
\* the order of the event list: a call on the list with two neighbours
\* exchanged returns the same trajectory, hashes and camera markers (or aborts
\* as well), the events of one step being applied in ascending id order.
C25_OrderOfEventsIrrelevant ==
    (UniqueEventIds /\ variant.kind = "swap" /\ BothCallsOver) => results[2] = results[1]

\* two thrust changes for body 1 fall into step 0, the one with the greater
\* id first in the list; both calls returned, and the thrust of the greater id
\* has moved the body along x
C25_Witness ==
    /\ UniqueEventIds
    /\ variant.kind = "swap"
    /\ BothCallsOver
    /\ events = <<ThrustChangeEvent(5, F(1), 1, <<F(3), 0, 0>>),
                  ThrustChangeEvent(1, 0, 1, <<0, 0, F(2)>>)>>
    /\ config.dt = F(2) /\ config.steps = 1
    /\ state.particles = <<BodyA>> /\ state.rigid_bodies = <<>>
    /\ results[1].status = "returned"
    /\ results[1].trajectory.velocities[2][1][1] > F(1)
    /\ thrusts = << <<F(3), 0, 0>> >>

\* position p of the list comes before position q: by step index, then by id,
\* then by place in the list
MarkerBefore(evs, p, q) ==
    LET sp == StepIndexOf(evs[p], config.dt)
        sq == StepIndexOf(evs[q], config.dt)
    IN  \/ sp < sq
        \/ sp = sq /\ evs[p].id < evs[q].id
        \/ sp = sq /\ evs[p].id = evs[q].id /\ p <= q

\* the markers at the positions P of the list, the first by MarkerBefore first
RECURSIVE MarkersInOrder(_, _)
MarkersInOrder(evs, P) ==
    IF P = {} THEN <<>>
    ELSE LET p == CHOOSE x \in P : \A y \in P : MarkerBefore(evs, x, y)
         IN  <<[time |-> evs[p].time, label |-> evs[p].label]>>
             \o MarkersInOrder(evs, P \ {p})

\* the in-range camera markers of a list
InRangeMarkers(evs) ==
    MarkersInOrder(evs, {p \in DOMAIN evs : evs[p].type = "camera_marker" /\ InRange(evs[p])})

\* C26: only events whose step index round(time/dt) lies in 0..steps-1 are
\* applied.  The loop over the events runs only at such a step; a call on the
\* list without an event whose step index is negative or >= steps gives the
\* same result as the call on the full list; and the camera_markers of a
\* returned call are exactly the in-range markers of its list, ordered by
\* step index and then by id.
C26_OnlyInRangeApplied ==
    /\ (pc = "events" /\ event_pos <= Len(events_at(schedule, step_index))) =>
           InRange(events_at(schedule, step_index)[event_pos])
    /\ (variant.kind = "drop" /\ BothCallsOver /\ ~InRange(events[Len(events)])) =>
           results[2] = results[1]
    /\ \A r \in 1..2 :
           results[r].status = "returned" =>
               results[r].camera_markers = InRangeMarkers(CallEvents(r, variant))

\* a run of one step of dt = 1 with a marker at time 1, the last recorded
\* sample, behind an impulse at step 0: both calls returned, the second without
\* the marker, and no marker is in the result
C26_Witness ==
    /\ variant.kind = "drop"
    /\ BothCallsOver
    /\ config.dt = F(1) /\ config.steps = 1
    /\ events = <<ImpulseEvent(2, 0, 1, <<F(1), 0, 0>>), CameraMarkerEvent(2, F(1), "m1")>>
    /\ results[1].status = "returned"
    /\ results[1].camera_markers = <<>>
    /\ Len(results[1].trajectory.times) = 2
    /\ results[1].trajectory.times[2] = events[2].time

\* the event the loop over the events of the step is about to apply
EventAtHand ==
    IF pc = "events" /\ event_pos <= Len(events_at(schedule, step_index))
    THEN <<events_at(schedule, step_index)[event_pos]>> ELSE <<>>

C21_UndoRedoRoundTrip == manager.scenario = history[Len(manager.undo_stack) + 1]

\* C22: an apply whose command raises CommandError in do leaves the manager
\* as it was, with the same scenario, undo stack and redo stack, and notifies
\* no listener; the error leaves apply.
C22_FailedApply ==
    [][(last_call'.op = "apply" /\ last_call'.raised = "CommandError") =>
           /\ manager' = manager
           /\ ~last_call'.notified]_vars

\* an apply has raised CommandError with a command on each stack
C22_Witness ==
    /\ last_call.op = "apply"
    /\ last_call.raised = "CommandError"
    /\ Len(manager.undo_stack) = 1
    /\ Len(manager.redo_stack) = 1

\* the same command, whatever its private fields hold
SameCommand(c, d) == c.type = d.type /\ c.args = d.args

\* C28: a successful apply pushes the command on the undo stack and empties
\* the redo stack; a successful undo or redo moves exactly one command from
\* the top of one stack to the top of the other; undo on an empty undo stack
\* and redo on an empty redo stack change nothing and notify no listener.
C28_StackDiscipline ==
    [][LET call == last_call'
           m == manager
           n == manager'
           succeeded == call.raised = "none"
       IN  /\ (call.op = "apply" /\ succeeded) =>
                  /\ n.undo_stack # <<>> /\ Pop(n.undo_stack) = m.undo_stack
                  /\ n.redo_stack = <<>>
                  /\ call.notified
           /\ (call.op = "undo" /\ succeeded /\ m.undo_stack # <<>>) =>
                  /\ n.undo_stack = Pop(m.undo_stack)
                  /\ n.redo_stack # <<>> /\ Pop(n.redo_stack) = m.redo_stack
                  /\ SameCommand(Top(n.redo_stack), Top(m.undo_stack))
                  /\ Len(n.undo_stack) + Len(n.redo_stack)
                         = Len(m.undo_stack) + Len(m.redo_stack)
                  /\ call.notified
           /\ (call.op = "redo" /\ succeeded /\ m.redo_stack # <<>>) =>
                  /\ n.redo_stack = Pop(m.redo_stack)
                  /\ n.undo_stack # <<>> /\ Pop(n.undo_stack) = m.undo_stack
                  /\ SameCommand(Top(n.undo_stack), Top(m.redo_stack))
                  /\ Len(n.undo_stack) + Len(n.redo_stack)
                         = Len(m.undo_stack) + Len(m.redo_stack)
                  /\ call.notified
           /\ (call.op = "undo" /\ m.undo_stack = <<>>) => (n = m /\ ~call.notified)
           /\ (call.op = "redo" /\ m.redo_stack = <<>>) => (n = m /\ ~call.notified)]_vars

\* a command was applied with an undone command on the redo stack, which is
\* empty now
C28_Witness ==
    /\ last_call = [op |-> "apply", raised |-> "none", notified |-> TRUE,
                    undoable |-> 1, redoable |-> 1]
    /\ Len(manager.undo_stack) = 2
    /\ manager.redo_stack = <<>>

\* C23 as stated: the time advance_playback_time returns never exceeds the
\* duration.
C23_NeverExceedsDuration ==
    playback.returned # <<>> => playback.returned[1] <= playback.duration_s

\* C23: advance_playback_time returns 0 when duration <= 0 and otherwise
\* min(current + dt_wall*speed, duration); the returned time never exceeds
\* max(duration, 0); with duration > 0 and dt_wall*speed > 0 a tick from a
\* time at or below the duration never goes back, returns the duration as
\* soon as the rounded sum is at or above it, and a tick at the duration
\* stays there.
C23_AdvanceClamped ==
    playback.returned # <<>> =>
        LET t == playback.returned[1]
            current == playback.before
            duration_s == playback.duration_s
            sum == RAdd(current, playback.step)
        IN  /\ duration_s <= 0 => t = 0
            /\ duration_s > 0 => t = (IF sum <= duration_s THEN sum ELSE duration_s)
            /\ t <= (IF duration_s > 0 THEN duration_s ELSE 0)
            /\ (duration_s > 0 /\ playback.step > 0 /\ current <= duration_s) =>
                   /\ t >= current
                   /\ sum >= duration_s => t = duration_s
                   /\ current = duration_s => t = duration_s

\* a tick went past a positive duration and was clamped to it
C23_Witness ==
    /\ playback.returned = <<playback.duration_s>>
    /\ playback.duration_s > 0
    /\ playback.step > 0
    /\ playback.before < playback.duration_s
    /\ playback.before + playback.step > playback.duration_s

\* the workers that are running
Running == {i \in 1..Len(window.workers) : window.workers[i].phase = "running"}

\* C29: at most one simulation worker is in flight at any time, under every
\* interleaving of Run Simulation, Play, scenario edits and the callbacks of
\* the workers.
C29_OneWorkerInFlight == Cardinality(Running) <= 1

\* C30: whenever _needs_simulation is false and a trajectory is held, the
\* trajectory was computed from the scenario the command manager holds.
C30_NoStaleTrajectory ==
    (~window.needs_simulation /\ window.trajectory # <<>>) =>
        window.trajectory[1].scenario = manager.scenario

====
